---- MODULE Spec2Model ----
(***************************************************************************)
(* Metisara: the dependency-ordered submission driver                      *)
(* (src/src/metisara/jira/ticket_creator.py, class JiraBulkCreator) and    *)
(* the template processor that feeds it                                    *)
(* (src/src/metisara/processors/csv_processor.py), with the driver's main  *)
(* and the download of the template                                        *)
(* (src/src/metisara/utils/file_manager.py, google_sheets_handler.py).     *)
(*                                                                         *)
(* Python strings are TLA+ strings (Len, \o, SubSeq, Head and Tail act on  *)
(* them), Python dicts are functions whose DOMAIN is the set of keys, and  *)
(* Python's None is the string None for string-valued names and the empty  *)
(* dict for a creation result (both are falsy, as None is).                *)
(***************************************************************************)
EXTENDS Integers, Sequences, FiniteSets, TLC

VARIABLES
    csv_file,      \* the processed CSV: the DictReader rows, in file order
    creator,       \* the JiraBulkCreator instance (its fields)
    tracker,       \* the external tracker: calls received, issues created
    all_rows,      \* process_csv: the loaded (row_num, row) pairs
    project_rows,  \* process_csv: phase 1 rows
    epic_rows,     \* process_csv: phase 2 rows
    other_rows,    \* process_csv: phase 3 rows
    created_count, \* process_csv: local counter
    failed_count,  \* process_csv: local counter
    pc,            \* process_csv: position ("read", the three loops, "done")
    idx,           \* process_csv: position in the current loop (1-based)
    submitted,     \* history: one entry per create_issue_from_row call
    summary,       \* the printed summary, empty until it is printed
    csv_exists,    \* the processed CSV is on disk
    argv,          \* ticket_creator: sys.argv
    environ,       \* ticket_creator: os.environ's JIRA_API_TOKEN, None if unset
    dotenv,        \* the .env file's JIRA_API_TOKEN, None if it has none
    creator_config,    \* process_csv: the dict load_config returned
    creator_exit_code, \* ticket_creator: the exit status once pc is "done"
    config_file,   \* workspace/config/csv_replacements.json: (exists, text)
    input_file,    \* the template CSV: (exists, rows), the header row first
    extracted_config,  \* extract_config_from_csv: the config being built
    current_section,   \* extract_config_from_csv: local
    scanned,       \* history: one entry per row extract_config_from_csv read
    loaded_config, \* csv_processor: the dict load_config returned
    in_config_section,        \* replace_placeholders_in_csv: local
    ra_tickets_added,         \* replace_placeholders_in_csv: local
    conception_tickets_added, \* replace_placeholders_in_csv: local
    rows_written,  \* replace_placeholders_in_csv: local
    outfile,       \* the processed CSV as the processor writes it, line by line
    emitted,       \* history: one entry per row replace_placeholders_in_csv read
    stage,         \* csv_processor: position ("extract", "load", "open",
                   \* "substitute"; "done" and "exit" once the process ended)
    line,          \* csv_processor: the reader's position in input_file.rows
    exit_code,     \* csv_processor: the exit status once the process ended
    sheets_url,    \* file_manager: the URL of the sheet
    force,         \* file_manager: the force argument
    web,           \* what is outside: the handler module, the answers of the
                   \* web, the destination directory
    dest_file,     \* the template at csv_file_input as the download leaves it
    fetched,       \* the export URL the handler asked for, None if none
    success,       \* the value download_csv_from_google_sheets returned
    download_pc    \* the download: position ("call" then "returned" in
                   \* file_manager, "main" then "exited" in the handler's main)

\* The state of the submission driver, ticket_creator
driver_vars == <<csv_file, creator, tracker, all_rows, project_rows, epic_rows,
                 other_rows, created_count, failed_count, pc, idx, submitted, summary,
                 csv_exists, argv, environ, dotenv, creator_config,
                 creator_exit_code>>

\* The state of the template processor, csv_processor
processor_vars == <<input_file, extracted_config, current_section, scanned,
                    loaded_config,
                    in_config_section, ra_tickets_added, conception_tickets_added,
                    rows_written, outfile, emitted, stage, line, exit_code>>

\* The state of the download of the template, file_manager
download_vars == <<sheets_url, force, web, dest_file, fetched, success, download_pc>>

vars == <<driver_vars, processor_vars, config_file, download_vars>>

----------------------------------------------------------------------------
(* Bounds *)

MaxRows == 3

MaxEpicRows == 2

MaxConfigRows == 3
MaxTemplateRows == 3
MaxSavedRows == 3
MaxSetupRows == 2
MaxSummaryRows == 2
MaxDateRows == 2
MaxLinkRows == 3
MaxRebindRows == 3
MaxChainRows == 2
MaxPipelineRows == 2
MaxArgs == 2

----------------------------------------------------------------------------
(* Python values and string methods *)

None == "None"

NoResult == <<>>

Truthy(s) == s # None /\ s # ""

Put(d, k, v) == [x \in (DOMAIN d) \cup {k} |-> IF x = k THEN v ELSE d[x]]

Get(d, k) == IF k \in DOMAIN d THEN d[k] ELSE None

UpperAlpha == "ABCDEFGHIJKLMNOPQRSTUVWXYZ"

LowerAlpha == "abcdefghijklmnopqrstuvwxyz"

\* The upper-case letters and their lower-case forms
LowerOf ==
    [c \in { SubSeq(UpperAlpha, i, i) : i \in 1..26 } |->
        LET i == CHOOSE j \in 1..26 : SubSeq(UpperAlpha, j, j) = c
        IN  SubSeq(LowerAlpha, i, i)]

LowerChar(c) == IF c \in DOMAIN LowerOf THEN LowerOf[c] ELSE c

RECURSIVE lower(_)
lower(s) == IF s = "" THEN "" ELSE LowerChar(Head(s)) \o lower(Tail(s))

IsSpace(c) == c \in {" ", "\t", "\n", "\r"}

RECURSIVE lstrip(_)
lstrip(s) == IF s # "" /\ IsSpace(Head(s)) THEN lstrip(Tail(s)) ELSE s

RECURSIVE rstrip(_)
rstrip(s) ==
    IF s # "" /\ IsSpace(SubSeq(s, Len(s), Len(s)))
    THEN rstrip(SubSeq(s, 1, Len(s) - 1))
    ELSE s

strip(s) == rstrip(lstrip(s))

startswith(s, p) == Len(p) <= Len(s) /\ SubSeq(s, 1, Len(p)) = p

endswith(s, p) == Len(p) <= Len(s) /\ SubSeq(s, Len(s) - Len(p) + 1, Len(s)) = p

\* Python's  sub in s
In(sub, s) ==
    \E i \in 1..(Len(s) - Len(sub) + 1) : SubSeq(s, i, i + Len(sub) - 1) = sub

RECURSIVE Digits(_)
Digits(n) ==
    IF n < 10 THEN SubSeq("0123456789", n + 1, n + 1)
    ELSE Digits(n \div 10) \o SubSeq("0123456789", (n % 10) + 1, (n % 10) + 1)

RECURSIVE ZeroPad(_, _)
ZeroPad(s, w) == IF Len(s) >= w THEN s ELSE ZeroPad("0" \o s, w)

----------------------------------------------------------------------------
(* Rows of the processed CSV (csv.DictReader dicts) *)

Row(milestone, issue_type, summ, epic_name, epic_link, parent_link) ==
    [k \in {"Milestone", "Issue Type", "Summary", "Epic Name", "Epic Link",
            "Parent Link"} |->
        CASE k = "Milestone"   -> milestone
          [] k = "Issue Type"  -> issue_type
          [] k = "Summary"     -> summ
          [] k = "Epic Name"   -> epic_name
          [] k = "Epic Link"   -> epic_link
          [] k = "Parent Link" -> parent_link]

\* row.get(key, default)
RowGet(row, k, default) == IF k \in DOMAIN row THEN row[k] ELSE default

\* The column order of the template, as generate_ra_tickets lays its rows out
Header ==
    <<"Milestone", "Issue Type", "Summary", "Description", "Priority", "Epic Link",
      "Epic Name", "Reporter", "Assignee", "Parent Link", "Target Start", "Due Date",
      "Component", "Story Points">>

\* d.get(k, default) on a dict
DictGet(d, k, default) == IF k \in DOMAIN d THEN d[k] ELSE default

\* A dict whose iteration order matters is the sequence of its items, in
\* insertion order: d.get(k, default)
ItemsGet(d, k, default) ==
    IF \E i \in 1..Len(d) : d[i][1] = k
    THEN d[CHOOSE i \in 1..Len(d) : d[i][1] = k][2]
    ELSE default

\* d[k] = v: a present key keeps its place, a new key goes last
ItemsPut(d, k, v) ==
    IF \E i \in 1..Len(d) : d[i][1] = k
    THEN [i \in 1..Len(d) |-> IF d[i][1] = k THEN <<k, v>> ELSE d[i]]
    ELSE Append(d, <<k, v>>)

\* Variant of generate_ra_tickets that spells the epic placeholder differently
\* from the key the submission driver binds
generate_ra_tickets_Respelled(config) ==
    IF "resource_allocation_teams" \notin DOMAIN config THEN <<>>
    ELSE LET replacements == DictGet(config, "replacements", <<>>)
             project_key  == ItemsGet(replacements, "<project_key>", "PROJECT")
             teams        == config["resource_allocation_teams"]
         IN  [i \in 1..Len(teams) |->
                <<"Resource Allocation", "Tracker",
                  project_key \o "M00: RA - " \o teams[i]["role"] \o " - " \o teams[i]["name"],
                  "", "Normal", "<resource_allocation_epic>", "",
                  ItemsGet(replacements, "<program_manager>", ""),
                  teams[i]["email"], "<parent_link>",
                  ItemsGet(replacements, "<project_target_start>", ""),
                  ItemsGet(replacements, "<project_due_date>", ""),
                  "Resource Allocation", "">>]

\* Variant of generate_ra_tickets that lists the roster from its last member
generate_ra_tickets_Reversed(config) ==
    IF "resource_allocation_teams" \notin DOMAIN config THEN <<>>
    ELSE LET replacements == DictGet(config, "replacements", <<>>)
             project_key  == ItemsGet(replacements, "<project_key>", "PROJECT")
             teams        == config["resource_allocation_teams"]
         IN  [i \in 1..Len(teams) |->
                LET team == teams[Len(teams) + 1 - i]
                IN  <<"Resource Allocation", "Tracker",
                      project_key \o "M00: RA - " \o team["role"] \o " - " \o team["name"],
                      "", "Normal", "<resource_alocation_epic>", "",
                      ItemsGet(replacements, "<program_manager>", ""),
                      team["email"], "<parent_link>",
                      ItemsGet(replacements, "<project_target_start>", ""),
                      ItemsGet(replacements, "<project_due_date>", ""),
                      "Resource Allocation", "">>]

\* csv_processor.generate_ra_tickets: one row (a list of 14 cells) per member of
\* config['resource_allocation_teams'], in roster order
generate_ra_tickets(config) ==
    IF "resource_allocation_teams" \notin DOMAIN config THEN <<>>
    ELSE LET replacements         == DictGet(config, "replacements", <<>>)
             project_key          == ItemsGet(replacements, "<project_key>", "PROJECT")
             program_manager      == ItemsGet(replacements, "<program_manager>", "")
             project_target_start == ItemsGet(replacements, "<project_target_start>", "")
             project_due_date     == ItemsGet(replacements, "<project_due_date>", "")
             teams                == config["resource_allocation_teams"]
         IN  [i \in 1..Len(teams) |->
                <<"Resource Allocation",
                  "Tracker",
                  project_key \o "M00: RA - " \o teams[i]["role"] \o " - " \o teams[i]["name"],
                  "",
                  "Normal",
                  "<resource_alocation_epic>",
                  "",
                  program_manager,
                  IF teams[i]["email"] # "" THEN teams[i]["email"] ELSE "",
                  "<parent_link>",
                  project_target_start,
                  project_due_date,
                  "Resource Allocation",
                  "">>]

\* The DictReader row of a list of cells, over the columns the driver's phases
\* and links read
DictRow(cells) ==
    [k \in {"Milestone", "Issue Type", "Summary", "Epic Name", "Epic Link",
            "Parent Link"} |->
        cells[CHOOSE i \in 1..Len(Header) : Header[i] = k]]

SampleConfig ==
    [k \in {"replacements", "resource_allocation_teams"} |->
        IF k = "replacements"
        THEN << <<"<project_key>", "ABC">>, <<"<program_manager>", "pm@x.com">> >>
        ELSE <<[team |-> "Core", role |-> "Lead", name |-> "Jane", email |-> "j@x.com"]>>]

GeneratedRaRows ==
    LET tickets == generate_ra_tickets(SampleConfig)
    IN  { DictRow(tickets[i]) : i \in 1..Len(tickets) }

Catalogue ==
    { Row("M00", "Project", "Project X", "", "", ""),
      Row("M00", "project ", "Sub-project", "", "", "<parent_link>"),
      Row("M00", "Epic", "Resource epic", "M00 Resource Allocation", "", "<parent_link>"),
      Row("M01", " EPIC ", "Conception epic", "Conception", "<resource_alocation_epic>", ""),
      Row("M05", "Epic", "Misc epic", "Misc", "", ""),
      Row("M01", "epic", "m01 epic", "", "", ""),
      Row("M01", "Story", "Charter", "", " <conception_epic> ", "EXT-7"),
      Row("M02", "Story", "Kickoff", "", "<other_epic>", " <parent_link>"),
      Row("M03", "Task", "Train", "M00", "EXT-5", ""),
      Row("M03", "Story", "  ", "", "<conception_epic>", "<parent_link>"),
      Row("M03", "", "No type", "", "", "") }
    \cup GeneratedRaRows

LoadCatalogue ==
    { Row("M00", "Project", "Project X", "", "", ""),
      Row("M00", "Epic", "Resource epic", "M00 Resource Allocation", "", "<parent_link>"),
      Row("", " ", "", "", "", ""),
      Row(" General Configuration", "", "", "", "", ""),
      Row("Conception Tickets", "Story", "After the marker", "", "", ""),
      Row("Core", "Lead", "Jane", "", "", "") }
    \cup GeneratedRaRows

EpicCatalogue ==
    { Row("M00", "Project", "Project X", "", "", ""),
      Row("M03", "Story", "Train", "", "<uat_closure_epic>", "<parent_link>") }
    \cup
    { Row("", "Epic", "An epic", n, "", "") :
        n \in { "Resource Allocation", "XM00", "Conception", "M01", "Initiation",
                "m02", "Enablement", "M03", "UAT", "Closure", "M04",
                "Conception M00", "UAT Initiation", "Closure m03", "M04 m02",
                "Misc" } }

SeqsUpTo(S, n) == UNION { [1..k -> S] : k \in 0..n }

----------------------------------------------------------------------------
(* csv_processor: the template, the configuration and its extraction *)

\* The first cell of a row that opens a configuration section
SectionMarkers ==
    {"General Configuration", "Resource Allocation Tickets", "Conception Tickets"}

\* The least element of a non-empty set of integers
Lowest(S) == CHOOSE i \in S : \A j \in S : i <= j

\* str.replace(old, new): every non-overlapping occurrence, left to right
RECURSIVE replace(_, _, _)
replace(s, old, new) ==
    IF old = "" THEN
        IF s = "" THEN new ELSE new \o SubSeq(s, 1, 1) \o replace(Tail(s), old, new)
    ELSE LET found == { i \in 1..(Len(s) - Len(old) + 1) :
                          SubSeq(s, i, i + Len(old) - 1) = old }
         IN  IF found = {} THEN s
             ELSE LET i == Lowest(found)
                  IN  SubSeq(s, 1, i - 1) \o new
                          \o replace(SubSeq(s, i + Len(old), Len(s)), old, new)

\* A row of the template: the cells of the columns the processor reads by
\* position or by name, the other columns of the sheet left empty
TemplateRow(milestone, issue_type, summ, description, epic_link, reporter) ==
    <<milestone, issue_type, summ, description, "", epic_link, "", reporter,
      "", "", "", "", "", "">>

\* csv.DictReader: the cell of the column called name, or default
Column(fieldnames, cells, name, default) ==
    IF \E i \in 1..Len(fieldnames) : fieldnames[i] = name /\ i <= Len(cells)
    THEN cells[CHOOSE i \in 1..Len(fieldnames) : fieldnames[i] = name /\ i <= Len(cells)]
    ELSE default

\* The first cell, in column order, that is not blank, trimmed; None if the
\* row has none
FirstCol(cells) ==
    IF \E i \in 1..Len(cells) : strip(cells[i]) # ""
    THEN strip(cells[CHOOSE i \in 1..Len(cells) :
                        /\ strip(cells[i]) # ""
                        /\ \A j \in 1..(i - 1) : strip(cells[j]) = ""])
    ELSE None

DefaultProject == "PROJ"

\* The config extract_config_from_csv starts from
EmptyConfig ==
    [k \in {"replacements", "jira_settings"} |->
        IF k = "replacements" THEN <<>> ELSE [target_project |-> DefaultProject]]

GeneralKeys ==
    {"<project_key>", "<project_name>", "<project_charter>", "<program_manager>",
     "<project_target_start>", "<project_due_date>", "<review_due_date>"}

EpicPlaceholders ==
    <<"<parent_link>", "<resource_alocation_epic>", "<conception_epic>",
      "<initiation_epic>", "<enablement_epic>", "<uat_closure_epic>">>

\* Variant of ExtractGeneral that keeps the target project out of the
\* replacements
ExtractGeneral_SettingsOnly(config, fieldnames, cells) ==
    LET placeholder == strip(Column(fieldnames, cells, "Milestone", ""))
        value       == strip(Column(fieldnames, cells, "Issue Type", ""))
    IN  IF placeholder # "" /\ value # "" /\ startswith(placeholder, "<")
           /\ endswith(placeholder, ">")
        THEN IF placeholder = "<target_project>"
             THEN [config EXCEPT !["jira_settings"] = [target_project |-> value]]
             ELSE IF placeholder \in GeneralKeys
             THEN [config EXCEPT !["replacements"] = ItemsPut(@, placeholder, value)]
             ELSE IF \E i \in 1..Len(EpicPlaceholders) : EpicPlaceholders[i] = placeholder
             THEN [config EXCEPT !["replacements"] = ItemsPut(@, placeholder, placeholder)]
             ELSE config
        ELSE config

\* A row of the General Configuration section
ExtractGeneral(config, fieldnames, cells) ==
    LET placeholder == strip(Column(fieldnames, cells, "Milestone", ""))
        value       == strip(Column(fieldnames, cells, "Issue Type", ""))
    IN  IF placeholder # "" /\ value # "" /\ startswith(placeholder, "<")
           /\ endswith(placeholder, ">")
        THEN IF placeholder = "<target_project>"
             THEN [config EXCEPT
                     !["jira_settings"] = [target_project |-> value],
                     !["replacements"] = ItemsPut(@, "<target_project>", value)]
             ELSE IF placeholder \in GeneralKeys
             THEN [config EXCEPT !["replacements"] = ItemsPut(@, placeholder, value)]
             ELSE IF \E i \in 1..Len(EpicPlaceholders) : EpicPlaceholders[i] = placeholder
             THEN [config EXCEPT !["replacements"] = ItemsPut(@, placeholder, placeholder)]
             ELSE config
        ELSE config

\* Variant of ExtractMember that takes a row without a role
ExtractMember_AnyRole(config, key, fieldnames, cells) ==
    LET team  == strip(Column(fieldnames, cells, "Milestone", ""))
        role  == strip(Column(fieldnames, cells, "Issue Type", ""))
        name  == strip(Column(fieldnames, cells, "Summary", ""))
        email == strip(Column(fieldnames, cells, "Description", ""))
        member == [team |-> team, role |-> role, name |-> name, email |-> email]
    IN  IF team # "" /\ name # "" /\ ~startswith(team, "<")
           /\ ~startswith(role, "<") /\ ~startswith(name, "<")
        THEN IF key \in DOMAIN config
             THEN [config EXCEPT ![key] = Append(@, member)]
             ELSE Put(config, key, <<member>>)
        ELSE config

\* A row of the Resource Allocation Tickets or Conception Tickets section:
\* key names the roster ('resource_allocation_teams' or 'conception_teams')
ExtractMember(config, key, fieldnames, cells) ==
    LET team  == strip(Column(fieldnames, cells, "Milestone", ""))
        role  == strip(Column(fieldnames, cells, "Issue Type", ""))
        name  == strip(Column(fieldnames, cells, "Summary", ""))
        email == strip(Column(fieldnames, cells, "Description", ""))
        member == [team |-> team, role |-> role, name |-> name, email |-> email]
    IN  IF team # "" /\ role # "" /\ name # "" /\ ~startswith(team, "<")
           /\ ~startswith(role, "<") /\ ~startswith(name, "<")
        THEN IF key \in DOMAIN config
             THEN [config EXCEPT ![key] = Append(@, member)]
             ELSE Put(config, key, <<member>>)
        ELSE config

\* Variant of SectionOf that opens the roster sections one for the other
SectionOf_Swapped(first_col) ==
    CASE first_col = "General Configuration"       -> "general"
      [] first_col = "Resource Allocation Tickets" -> "conception"
      [] first_col = "Conception Tickets"          -> "resource_allocation"

SectionOf(first_col) ==
    CASE first_col = "General Configuration"       -> "general"
      [] first_col = "Resource Allocation Tickets" -> "resource_allocation"
      [] first_col = "Conception Tickets"          -> "conception"

HeaderWords == {"Team", "Role", "Name", "Email"}

\* The body of the extractor's loop for one DictReader row: the section and
\* the config it leaves
ExtractLine(section, config, fieldnames, cells) ==
    LET first_col == FirstCol(cells)
    IN  IF ~Truthy(first_col) THEN [section |-> section, config |-> config]
        ELSE IF first_col \in SectionMarkers
        THEN [section |-> SectionOf(first_col), config |-> config]
        ELSE IF first_col \in HeaderWords THEN [section |-> section, config |-> config]
        ELSE [section |-> section,
              config  |->
                CASE section = "general" -> ExtractGeneral(config, fieldnames, cells)
                  [] section = "resource_allocation" ->
                        ExtractMember(config, "resource_allocation_teams", fieldnames, cells)
                  [] section = "conception" ->
                        ExtractMember(config, "conception_teams", fieldnames, cells)
                  [] OTHER -> config]

\* config["replacements"][token] = token for the six epic and parent tokens
RECURSIVE WithEpicDefaults(_, _)
WithEpicDefaults(replacements, i) ==
    IF i > Len(EpicPlaceholders) THEN replacements
    ELSE WithEpicDefaults(ItemsPut(replacements, EpicPlaceholders[i], EpicPlaceholders[i]),
                          i + 1)

\* Variant of WithIndexed that counts the members from 1
RECURSIVE WithIndexed_FromOne(_, _, _, _)
WithIndexed_FromOne(replacements, prefix, teams, i) ==
    IF i > Len(teams) THEN replacements
    ELSE LET n  == Digits(i)
             r1 == ItemsPut(replacements, "<" \o prefix \o "_team_" \o n \o ">", teams[i].team)
             r2 == ItemsPut(r1, "<" \o prefix \o "_role_" \o n \o ">", teams[i].role)
             r3 == ItemsPut(r2, "<" \o prefix \o "_name_" \o n \o ">", teams[i].name)
             r4 == ItemsPut(r3, "<" \o prefix \o "_email_" \o n \o ">", teams[i].email)
         IN  WithIndexed_FromOne(r4, prefix, teams, i + 1)

\* The indexed placeholders of one roster: <prefix_team_i>, <prefix_role_i>,
\* <prefix_name_i>, <prefix_email_i> for the i-th member, counted from 0
RECURSIVE WithIndexed(_, _, _, _)
WithIndexed(replacements, prefix, teams, i) ==
    IF i > Len(teams) THEN replacements
    ELSE LET n  == Digits(i - 1)
             r1 == ItemsPut(replacements, "<" \o prefix \o "_team_" \o n \o ">", teams[i].team)
             r2 == ItemsPut(r1, "<" \o prefix \o "_role_" \o n \o ">", teams[i].role)
             r3 == ItemsPut(r2, "<" \o prefix \o "_name_" \o n \o ">", teams[i].name)
             r4 == ItemsPut(r3, "<" \o prefix \o "_email_" \o n \o ">", teams[i].email)
         IN  WithIndexed(r4, prefix, teams, i + 1)

\* Variant of ExtractFinish that does not set the epic tokens
ExtractFinish_NoDefaults(config) ==
    LET r0 == config["replacements"]
        r1 == IF "resource_allocation_teams" \in DOMAIN config
              THEN WithIndexed(r0, "ra", config["resource_allocation_teams"], 1)
              ELSE r0
        r2 == IF "conception_teams" \in DOMAIN config
              THEN WithIndexed(r1, "conception", config["conception_teams"], 1)
              ELSE r1
    IN  [config EXCEPT !["replacements"] = r2]

\* What extract_config_from_csv does after its loop
ExtractFinish(config) ==
    LET r0 == WithEpicDefaults(config["replacements"], 1)
        r1 == IF "resource_allocation_teams" \in DOMAIN config
              THEN WithIndexed(r0, "ra", config["resource_allocation_teams"], 1)
              ELSE r0
        r2 == IF "conception_teams" \in DOMAIN config
              THEN WithIndexed(r1, "conception", config["conception_teams"], 1)
              ELSE r1
    IN  [config EXCEPT !["replacements"] = r2]

\* csv_processor.generate_conception_review_tickets: one row per member of
\* config['conception_teams'], in roster order
generate_conception_review_tickets(config) ==
    IF "conception_teams" \notin DOMAIN config THEN <<>>
    ELSE LET replacements    == DictGet(config, "replacements", <<>>)
             program_manager == ItemsGet(replacements, "<program_manager>", "")
             project_charter == ItemsGet(replacements, "<project_charter>", "")
             review_due_date == ItemsGet(replacements, "<review_due_date>", "")
             teams           == config["conception_teams"]
         IN  [i \in 1..Len(teams) |->
                <<"Conception",
                  "Story",
                  "Team, Review Project Charter - " \o teams[i]["role"] \o " - "
                      \o teams[i]["name"],
                  "Please review the [Project Charter|" \o project_charter
                      \o "] and provide your sign-off by resolving this ticket. If you have any questions, concerns, or suggestions, please add inline comments to the charter document.",
                  "Normal",
                  "<conception_epic>",
                  "",
                  program_manager,
                  IF teams[i]["email"] # "" THEN teams[i]["email"] ELSE "",
                  "<parent_link>",
                  "",
                  review_due_date,
                  "Review",
                  "1">>]

----------------------------------------------------------------------------
(* csv_processor: replace_placeholders_in_csv *)

\* Variant of SubstituteCell that blanks a cell in which a '<' is left
SubstituteCell_BlankUnresolved(cell, replacements) ==
    IF In("<", cell) /\ \A k \in 1..Len(replacements) : ~In(replacements[k][1], cell)
    THEN ""
    ELSE cell

\* for placeholder, replacement in replacements.items():
\*     processed_cell = processed_cell.replace(placeholder, replacement)
RECURSIVE SubstituteCell(_, _)
SubstituteCell(cell, replacements) ==
    IF replacements = <<>> THEN cell
    ELSE SubstituteCell(replace(cell, Head(replacements)[1], Head(replacements)[2]),
                        Tail(replacements))

SubstituteCells(row, replacements) ==
    [i \in 1..Len(row) |-> SubstituteCell(row[i], replacements)]

\* in_config_section after the engine has looked at the row's first cell
SectionFlag(flag, row) ==
    LET first_cell == IF row # <<>> THEN row[1] ELSE ""
    IN  IF first_cell \in SectionMarkers THEN TRUE
        ELSE IF first_cell # "" /\ ~startswith(first_cell, "<") /\ ~flag
        THEN FALSE
        ELSE IF first_cell = "" THEN FALSE
        ELSE flag

\* A row that is a template for user input: both tokens of a pair in its
\* third cell
IsUserTemplateRow(flag, row) ==
    /\ ~flag
    /\ Len(row) > 2
    /\ \/ In("<ra_role>", row[3]) /\ In("<ra_name>", row[3])
       \/ In("<conception_role>", row[3]) /\ In("<conception_name>", row[3])

\* The truth value of a dict
NonEmpty(d) == DOMAIN d # {}

\* Variant of RaTrigger that does not look at the flag
RaTrigger_EveryMatch(cfg, processed_row, added) ==
    /\ NonEmpty(cfg)
    /\ Len(processed_row) > 1
    /\ In("Epic", processed_row[2])
    /\ In("UAT / Project Closure", processed_row[3])

\* The row after which the resource allocation tickets go; the test reads the
\* third cell of a row that has more than one
RaTrigger(cfg, processed_row, added) ==
    /\ NonEmpty(cfg)
    /\ Len(processed_row) > 1
    /\ In("Epic", processed_row[2])
    /\ In("UAT / Project Closure", processed_row[3])
    /\ ~added

\* The row after which the conception review tickets go
ConceptionTrigger(cfg, processed_row, added) ==
    /\ NonEmpty(cfg)
    /\ Len(processed_row) > 1
    /\ In("Conception", processed_row[1])
    /\ In("Story", processed_row[2])
    /\ In("Fill in project charter", processed_row[3])
    /\ ~added

\* The triggers index the third cell of a two-cell row: IndexError
TriggerRaises(cfg, processed_row) ==
    /\ NonEmpty(cfg)
    /\ Len(processed_row) = 2
    /\ \/ In("Epic", processed_row[2])
       \/ In("Conception", processed_row[1]) /\ In("Story", processed_row[2])

\* The generated tickets as they are written: each cell substituted
Written(tickets, replacements) ==
    [i \in 1..Len(tickets) |-> SubstituteCells(tickets[i], replacements)]

----------------------------------------------------------------------------
(* csv_processor: save_config and load_config, the JSON artifact *)

\* get_ai_disclaimer() as save_config falls back to it, at a sample time
AiDisclaimer ==
    "AI-Generated file - Review before production use | Generated: 2025-01-01 00:00:00"

\* get_ai_disclaimer().replace('\n', ' | ').replace('#', '').strip()
ConfigDisclaimer == strip(replace(replace(AiDisclaimer, "\n", " | "), "#", ""))

\* Variant of JsonEscapeChar that writes a backslash as it is
JsonEscapeChar_BareBackslash(c) ==
    CASE c = "\"" -> "\\\""
      [] c = "\n" -> "\\n"
      [] c = "\r" -> "\\r"
      [] c = "\t" -> "\\t"
      [] OTHER    -> c

\* One character inside a JSON string (ensure_ascii=False)
JsonEscapeChar(c) ==
    CASE c = "\"" -> "\\\""
      [] c = "\\" -> "\\\\"
      [] c = "\n" -> "\\n"
      [] c = "\r" -> "\\r"
      [] c = "\t" -> "\\t"
      [] c = "\f" -> "\\f"
      [] OTHER    -> c

\* The pieces piece[lo..hi] joined in order
RECURSIVE Join(_, _, _)
Join(piece, lo, hi) ==
    IF lo > hi THEN ""
    ELSE IF lo = hi THEN piece[lo]
    ELSE LET mid == (lo + hi) \div 2
         IN  Join(piece, lo, mid) \o Join(piece, mid + 1, hi)

JsonEscape(s) ==
    Join([i \in 1..Len(s) |-> JsonEscapeChar(SubSeq(s, i, i))], 1, Len(s))

\* json.dump of a str
JsonString(s) == "\"" \o JsonEscape(s) \o "\""

\* json.dump(indent=2) of a dict of str given as its items, ind being the
\* indentation of the line the dict opens on
RECURSIVE JsonMembers(_, _)
JsonMembers(items, ind) ==
    IF items = <<>> THEN ""
    ELSE "\n" \o ind \o "  " \o JsonString(Head(items)[1]) \o ": "
             \o Head(items)[2]
             \o (IF Len(items) > 1 THEN "," ELSE "")
             \o JsonMembers(Tail(items), ind)

\* An object whose members are already encoded values
JsonObject(items, ind) ==
    IF items = <<>> THEN "{}" ELSE "{" \o JsonMembers(items, ind) \o "\n" \o ind \o "}"

RECURSIVE JsonElements(_, _)
JsonElements(elems, ind) ==
    IF elems = <<>> THEN ""
    ELSE "\n" \o ind \o "  " \o Head(elems)
             \o (IF Len(elems) > 1 THEN "," ELSE "")
             \o JsonElements(Tail(elems), ind)

JsonArray(elems, ind) ==
    IF elems = <<>> THEN "[]" ELSE "[" \o JsonElements(elems, ind) \o "\n" \o ind \o "]"

\* A dict of str to str
JsonStrDict(items, ind) ==
    JsonObject([i \in 1..Len(items) |-> <<items[i][1], JsonString(items[i][2])>>], ind)

\* A team member, its keys in the order the extractor inserts them
JsonMember(member, ind) ==
    JsonStrDict(<< <<"team", member["team"]>>, <<"role", member["role"]>>,
                   <<"name", member["name"]>>, <<"email", member["email"]>> >>, ind)

JsonTeams(teams, ind) ==
    JsonArray([i \in 1..Len(teams) |-> JsonMember(teams[i], ind \o "  ")], ind)

\* The keys of a config in the order the extractor inserts them
ConfigKeys(config) ==
    SelectSeq(<<"replacements", "jira_settings", "resource_allocation_teams",
                "conception_teams">>, LAMBDA k : k \in DOMAIN config)

\* The value of one top-level key, encoded
JsonConfigValue(config, k) ==
    CASE k = "replacements"  -> JsonStrDict(config[k], "  ")
      [] k = "jira_settings" ->
            JsonStrDict(<< <<"target_project", config[k]["target_project"]>> >>, "  ")
      [] OTHER               -> JsonTeams(config[k], "  ")

\* The text save_config writes: {"_ai_disclaimer": ..., **config}
json_dump(config) ==
    LET keys == ConfigKeys(config)
    IN  JsonObject(<< <<"_ai_disclaimer", JsonString(ConfigDisclaimer)>> >>
                   \o [i \in 1..Len(keys) |-> <<keys[i], JsonConfigValue(config, keys[i])>>],
                   "")

\* json.load: a parsed value is a string [t |-> "str"], an object
\* [t |-> "obj"] with its members in document order, an array [t |-> "arr"],
\* or the failure [t |-> "err"] (JSONDecodeError); at is the position after it
CharAt(s, i) == IF i <= Len(s) THEN SubSeq(s, i, i) ELSE ""

RECURSIVE SkipSpace(_, _)
SkipSpace(s, i) == IF IsSpace(CharAt(s, i)) THEN SkipSpace(s, i + 1) ELSE i

JsonErr == [t |-> "err", v |-> <<>>, at |-> 0]

\* The number of backslashes that end at position k
RECURSIVE BackslashRun(_, _)
BackslashRun(s, k) ==
    IF k >= 1 /\ CharAt(s, k) = "\\" THEN 1 + BackslashRun(s, k - 1) ELSE 0

\* Position j holds a backslash that opens an escape
OpensEscape(s, j) == CharAt(s, j) = "\\" /\ BackslashRun(s, j - 1) % 2 = 0

\* The quote that closes the string literal whose text begins at i; 0 if the
\* document ends or the line breaks first
RECURSIVE ClosingQuote(_, _)
ClosingQuote(s, i) ==
    IF i > Len(s) THEN 0
    ELSE LET hi   == IF i + 15 <= Len(s) THEN i + 15 ELSE Len(s)
             ends == { j \in i..hi :
                         \/ CharAt(s, j) = "\n"
                         \/ CharAt(s, j) = "\"" /\ BackslashRun(s, j - 1) % 2 = 0 }
         IN  IF ends = {} THEN ClosingQuote(s, hi + 1)
             ELSE IF CharAt(s, Lowest(ends)) = "\n" THEN 0
             ELSE Lowest(ends)

\* What an escape stands for; the empty string if it is not one JSON has
Unescaped(e) ==
    CASE e = "\"" -> "\""
      [] e = "\\" -> "\\"
      [] e = "/"  -> "/"
      [] e = "n"  -> "\n"
      [] e = "r"  -> "\r"
      [] e = "t"  -> "\t"
      [] e = "f"  -> "\f"
      [] OTHER    -> ""

\* The string literal whose text begins at position i, after the opening quote
ParseChars(s, i) ==
    LET q == ClosingQuote(s, i)
    IN  IF q = 0 \/ \E j \in i..(q - 1) : OpensEscape(s, j) /\ Unescaped(CharAt(s, j + 1)) = ""
        THEN JsonErr
        ELSE [t  |-> "str",
              v  |-> Join([j \in i..(q - 1) |->
                             IF OpensEscape(s, j) THEN Unescaped(CharAt(s, j + 1))
                             ELSE IF j > i /\ OpensEscape(s, j - 1) THEN ""
                             ELSE CharAt(s, j)], i, q - 1),
              at |-> q + 1]

RECURSIVE ParseValue(_, _)
RECURSIVE ParseMembers(_, _, _)
RECURSIVE ParseElements(_, _, _)

\* The members of an object from position i, after '{' or ','
ParseMembers(s, i, acc) ==
    LET k == SkipSpace(s, i)
    IN  IF CharAt(s, k) # "\"" THEN JsonErr
        ELSE LET key == ParseChars(s, k + 1)
             IN  IF key.t = "err" THEN JsonErr
                 ELSE LET c == SkipSpace(s, key.at)
                      IN  IF CharAt(s, c) # ":" THEN JsonErr
                          ELSE LET val == ParseValue(s, c + 1)
                               IN  IF val.t = "err" THEN JsonErr
                                   ELSE LET n    == SkipSpace(s, val.at)
                                            more == Append(acc, <<key.v, val>>)
                                        IN  CASE CharAt(s, n) = "," -> ParseMembers(s, n + 1, more)
                                              [] CharAt(s, n) = "}" ->
                                                    [t |-> "obj", v |-> more, at |-> n + 1]
                                              [] OTHER -> JsonErr

\* The elements of an array from position i, after '[' or ','
ParseElements(s, i, acc) ==
    LET val == ParseValue(s, i)
    IN  IF val.t = "err" THEN JsonErr
        ELSE LET n    == SkipSpace(s, val.at)
                 more == Append(acc, val)
             IN  CASE CharAt(s, n) = "," -> ParseElements(s, n + 1, more)
                   [] CharAt(s, n) = "]" -> [t |-> "arr", v |-> more, at |-> n + 1]
                   [] OTHER -> JsonErr

ParseValue(s, i) ==
    LET k == SkipSpace(s, i)
        c == CharAt(s, k)
    IN  CASE c = "\"" -> ParseChars(s, k + 1)
          [] c = "{"  -> IF CharAt(s, SkipSpace(s, k + 1)) = "}"
                         THEN [t |-> "obj", v |-> <<>>, at |-> SkipSpace(s, k + 1) + 1]
                         ELSE ParseMembers(s, k + 1, <<>>)
          [] c = "["  -> IF CharAt(s, SkipSpace(s, k + 1)) = "]"
                         THEN [t |-> "arr", v |-> <<>>, at |-> SkipSpace(s, k + 1) + 1]
                         ELSE ParseElements(s, k + 1, <<>>)
          [] OTHER    -> JsonErr

\* The whole document: one value and nothing but blanks after it
json_loads(s) ==
    LET val == ParseValue(s, 1)
    IN  IF val.t # "err" /\ SkipSpace(s, val.at) > Len(s) THEN val ELSE JsonErr

\* The Python value of a parsed object of strings, as the items of the dict
\* (a repeated key keeps its first place and its last value)
RECURSIVE PyItems(_, _)
PyItems(members, acc) ==
    IF members = <<>> THEN acc
    ELSE PyItems(Tail(members), ItemsPut(acc, Head(members)[1], Head(members)[2].v))

\* A dict read by key only
PyDict(members) ==
    LET items == PyItems(members, <<>>)
    IN  [k \in { items[i][1] : i \in 1..Len(items) } |-> ItemsGet(items, k, None)]

\* The Python value of the member called k of a parsed config
PyConfigValue(k, val) ==
    CASE k = "replacements"  -> PyItems(val.v, <<>>)
      [] k = "jira_settings" -> PyDict(val.v)
      [] val.t = "arr"       -> [i \in 1..Len(val.v) |-> PyDict(val.v[i].v)]
      [] OTHER               -> val.v

\* The dict json.load returns for a parsed config document
PyConfig(doc) ==
    [k \in { doc.v[i][1] : i \in 1..Len(doc.v) } |->
        PyConfigValue(k, doc.v[CHOOSE i \in 1..Len(doc.v) :
                                  /\ doc.v[i][1] = k
                                  /\ \A j \in (i + 1)..Len(doc.v) : doc.v[j][1] # k][2])]

----------------------------------------------------------------------------
(* JiraBulkCreator *)

TargetProject ==
    IF NonEmpty(creator_config)
    THEN DictGet(DictGet(creator_config, "jira_settings", <<>>), "target_project", "GUARD")
    ELSE "GUARD"

EpicNameField == "customfield_12311141"

EpicLinkField == "customfield_12311140"

ParentLinkField == "customfield_12313140"

DueDateField == "duedate"

TargetStartField == "customfield_12313941"

\* __init__: the tracker client is built only when not in dry-run mode
JiraClient(dry_run) == IF ~dry_run THEN "JIRA" ELSE None

Construct(dry_run) ==
    [ dry_run            |-> dry_run,
      jira               |-> JiraClient(dry_run),
      created_issues     |-> <<>>,
      epic_placeholders  |-> <<>>,
      parent_project_key |-> None,
      dry_run_counter    |-> 0 ]

ScriptName == "ticket_creator.py"

\* A run of ticket_creator that has reached process_csv: the creator main
\* built, the command line and the token main found
Launched(dry_run) ==
    /\ creator = Construct(dry_run)
    /\ argv = IF dry_run THEN <<ScriptName, "--dry-run">> ELSE <<ScriptName>>
    /\ environ = IF dry_run THEN None ELSE "token"
    /\ dotenv = None

\* The digits of a date, as characters and as numbers
IsDigit(c) == c \in {"0", "1", "2", "3", "4", "5", "6", "7", "8", "9"}

AllDigits(s) == \A i \in 1..Len(s) : IsDigit(SubSeq(s, i, i))

DigitValue(c) == CHOOSE v \in 0..9 : SubSeq("0123456789", v + 1, v + 1) = c

\* int() of a string of digits
RECURSIVE IntOf(_)
IntOf(s) ==
    IF s = "" THEN 0
    ELSE 10 * IntOf(SubSeq(s, 1, Len(s) - 1)) + DigitValue(SubSeq(s, Len(s), Len(s)))

\* %b in the C locale, matched without regard to case
MonthNames ==
    <<"jan", "feb", "mar", "apr", "may", "jun",
      "jul", "aug", "sep", "oct", "nov", "dec">>

IsLeap(year) == year % 4 = 0 /\ (year % 100 # 0 \/ year % 400 = 0)

DaysIn(year, month) ==
    IF month = 2 THEN (IF IsLeap(year) THEN 29 ELSE 28)
    ELSE IF month \in {4, 6, 9, 11} THEN 30
    ELSE 31

\* strptime could not read the string with the format: ValueError
NoDate == [ok |-> FALSE, year |-> 0, month |-> 0, day |-> 0]

\* The positions of the separator in the string
SeparatorsIn(s, sep) == { i \in 1..Len(s) : SubSeq(s, i, i) = sep }

\* A number a field of the format accepts, or 0
Within(n, lo, hi) == IF n \in lo..hi THEN n ELSE 0

\* A field of one or two digits
ShortField(s, lo, hi) ==
    IF Len(s) \in {1, 2} /\ AllDigits(s) THEN Within(IntOf(s), lo, hi) ELSE 0

\* %b: a month's three-letter name, in any letter case
NamedMonth(name) ==
    IF \E m \in 1..12 : MonthNames[m] = name
    THEN CHOOSE m \in 1..12 : MonthNames[m] = name
    ELSE 0

\* %d: one or two digits, 1 to 31
DayField(s) == ShortField(s, 1, 31)

\* %m: one or two digits, 1 to 12; %b: a month's name
MonthField(s, named) ==
    IF named THEN NamedMonth(lower(s)) ELSE ShortField(s, 1, 12)

\* %y: 69 to 99 are years of the last century, 00 to 68 of this one
Pivot(yy) == IF yy <= 68 THEN 2000 + yy ELSE 1900 + yy

\* %y: two digits; %Y: four digits, and datetime has no year 0
YearField(s, century) ==
    IF century
    THEN IF Len(s) = 4 /\ AllDigits(s) THEN IntOf(s) ELSE 0
    ELSE IF Len(s) = 2 /\ AllDigits(s) THEN Pivot(IntOf(s)) ELSE 0

\* datetime(year, month, day): the day has to exist in the month
DateOf(year, month, day) ==
    IF day = 0 \/ month = 0 \/ year = 0 THEN NoDate
    ELSE IF day > DaysIn(year, month) THEN NoDate
    ELSE [ok |-> TRUE, year |-> year, month |-> month, day |-> day]

\* The string cut at its two separators
FieldsAt(s, fmt, p1, p2) ==
    DateOf(YearField(SubSeq(s, p2 + 1, Len(s)), fmt.century),
           MonthField(SubSeq(s, p1 + 1, p2 - 1), fmt.named),
           DayField(SubSeq(s, 1, p1 - 1)))

\* The first and the last of the positions
FirstOf(at) == CHOOSE i \in at : \A j \in at : i <= j

LastOf(at) == CHOOSE i \in at : \A j \in at : j <= i

Cut(s, fmt, at) ==
    IF Cardinality(at) # 2 THEN NoDate ELSE FieldsAt(s, fmt, FirstOf(at), LastOf(at))

\* datetime.strptime with a format day, separator, month, separator, year:
\* the whole string has to be read and the day has to exist in the month
strptime(s, fmt) == Cut(s, fmt, SeparatorsIn(s, fmt.sep))

\* date_obj.strftime("%Y-%m-%d")
strftime(date) ==
    ZeroPad(Digits(date.year), 4) \o "-" \o ZeroPad(Digits(date.month), 2)
        \o "-" \o ZeroPad(Digits(date.day), 2)

\* "%d/%b/%y", "%d/%m/%y", "%d-%m-%y", "%d.%m.%y", "%d/%b/%Y", "%d/%m/%Y"
date_formats ==
    << [sep |-> "/", named |-> TRUE,  century |-> FALSE],
       [sep |-> "/", named |-> FALSE, century |-> FALSE],
       [sep |-> "-", named |-> FALSE, century |-> FALSE],
       [sep |-> ".", named |-> FALSE, century |-> FALSE],
       [sep |-> "/", named |-> TRUE,  century |-> TRUE],
       [sep |-> "/", named |-> FALSE, century |-> TRUE] >>

\* The loop of convert_date from the i-th format on: the first format that
\* reads the string gives the result, and None is returned when none does
RECURSIVE TryFormats(_, _)

\* return date_obj.strftime("%Y-%m-%d"), or except ValueError: continue
FirstParsed(date_obj, s, i) ==
    IF date_obj.ok THEN strftime(date_obj) ELSE TryFormats(s, i + 1)

TryFormats(s, i) ==
    IF i > Len(date_formats) THEN None
    ELSE FirstParsed(strptime(s, date_formats[i]), s, i)

\* Variant of convert_date that reads the cell as written, blanks included
convert_date_Untrimmed(date_str) ==
    IF date_str = "" \/ strip(date_str) = "" THEN None
    ELSE TryFormats(date_str, 1)

\* JiraBulkCreator.convert_date
convert_date(date_str) ==
    IF date_str = "" \/ strip(date_str) = "" THEN None
    ELSE TryFormats(strip(date_str), 1)

resolve_epic_placeholder(c, epic_link) ==
    IF startswith(epic_link, "<") /\ endswith(epic_link, ">")
    THEN LET resolved_key == Get(c.epic_placeholders, epic_link)
         IN  IF Truthy(resolved_key) THEN resolved_key ELSE None
    ELSE epic_link

\* Variant of MapEpicDry that tests the name as written (no lower)
MapEpicDry_AsWritten(placeholders, epic_name, fake_key) ==
    IF In("resource allocation", epic_name) \/ In("m00", epic_name)
    THEN Put(placeholders, "<resource_alocation_epic>", fake_key)
    ELSE IF In("conception", epic_name) \/ In("m01", epic_name)
    THEN Put(placeholders, "<conception_epic>", fake_key)
    ELSE IF In("initiation", epic_name) \/ In("m02", epic_name)
    THEN Put(placeholders, "<initiation_epic>", fake_key)
    ELSE IF In("enablement", epic_name) \/ In("m03", epic_name)
    THEN Put(placeholders, "<enablement_epic>", fake_key)
    ELSE IF In("uat", epic_name) \/ In("closure", epic_name) \/ In("m04", epic_name)
    THEN Put(placeholders, "<uat_closure_epic>", fake_key)
    ELSE placeholders

\* create_issue, dry-run branch: the if/elif chain over the epic's name
MapEpicDry(placeholders, epic_name, fake_key) ==
    LET epic_lower == lower(epic_name)
    IN  IF In("resource allocation", epic_lower) \/ In("m00", epic_lower)
        THEN Put(placeholders, "<resource_alocation_epic>", fake_key)
        ELSE IF In("conception", epic_lower) \/ In("m01", epic_lower)
        THEN Put(placeholders, "<conception_epic>", fake_key)
        ELSE IF In("initiation", epic_lower) \/ In("m02", epic_lower)
        THEN Put(placeholders, "<initiation_epic>", fake_key)
        ELSE IF In("enablement", epic_lower) \/ In("m03", epic_lower)
        THEN Put(placeholders, "<enablement_epic>", fake_key)
        ELSE IF In("uat", epic_lower) \/ In("closure", epic_lower) \/ In("m04", epic_lower)
        THEN Put(placeholders, "<uat_closure_epic>", fake_key)
        ELSE placeholders

\* Variant of MapEpicLive that tests the conception keywords first
MapEpicLive_ConceptionFirst(placeholders, epic_name, issue_key) ==
    LET epic_lower == lower(epic_name)
    IN  IF In("conception", epic_lower) \/ In("m01", epic_lower)
        THEN Put(placeholders, "<conception_epic>", issue_key)
        ELSE IF In("resource allocation", epic_lower) \/ In("m00", epic_lower)
        THEN Put(placeholders, "<resource_alocation_epic>", issue_key)
        ELSE IF In("initiation", epic_lower) \/ In("m02", epic_lower)
        THEN Put(placeholders, "<initiation_epic>", issue_key)
        ELSE IF In("enablement", epic_lower) \/ In("m03", epic_lower)
        THEN Put(placeholders, "<enablement_epic>", issue_key)
        ELSE IF In("uat", epic_lower) \/ In("closure", epic_lower) \/ In("m04", epic_lower)
        THEN Put(placeholders, "<uat_closure_epic>", issue_key)
        ELSE placeholders

\* Variant of MapEpicLive that binds no placeholder
MapEpicLive_NoBinding(placeholders, epic_name, issue_key) == placeholders

\* Variant of MapEpicLive that keeps a binding a placeholder already has
MapEpicLive_FirstKept(placeholders, epic_name, issue_key) ==
    LET epic_lower == lower(epic_name)
        T == IF In("resource allocation", epic_lower) \/ In("m00", epic_lower)
             THEN "<resource_alocation_epic>"
             ELSE IF In("conception", epic_lower) \/ In("m01", epic_lower)
             THEN "<conception_epic>"
             ELSE IF In("initiation", epic_lower) \/ In("m02", epic_lower)
             THEN "<initiation_epic>"
             ELSE IF In("enablement", epic_lower) \/ In("m03", epic_lower)
             THEN "<enablement_epic>"
             ELSE IF In("uat", epic_lower) \/ In("closure", epic_lower)
                        \/ In("m04", epic_lower)
             THEN "<uat_closure_epic>"
             ELSE None
    IN  IF T = None \/ T \in DOMAIN placeholders THEN placeholders
        ELSE Put(placeholders, T, issue_key)

\* create_issue, live branch: the same chain, written a second time in the code
MapEpicLive(placeholders, epic_name, issue_key) ==
    LET epic_lower == lower(epic_name)
    IN  IF In("resource allocation", epic_lower) \/ In("m00", epic_lower)
        THEN Put(placeholders, "<resource_alocation_epic>", issue_key)
        ELSE IF In("conception", epic_lower) \/ In("m01", epic_lower)
        THEN Put(placeholders, "<conception_epic>", issue_key)
        ELSE IF In("initiation", epic_lower) \/ In("m02", epic_lower)
        THEN Put(placeholders, "<initiation_epic>", issue_key)
        ELSE IF In("enablement", epic_lower) \/ In("m03", epic_lower)
        THEN Put(placeholders, "<enablement_epic>", issue_key)
        ELSE IF In("uat", epic_lower) \/ In("closure", epic_lower) \/ In("m04", epic_lower)
        THEN Put(placeholders, "<uat_closure_epic>", issue_key)
        ELSE placeholders

\* What one call returns: the creator and the tracker after it, whether
\* create_issue was reached, the payload it was given, and the result.
Outcome(c, t, called, fields, result) ==
    [creator |-> c, tracker |-> t, called |-> called, fields |-> fields,
     result |-> result]

\* Variant of CreateIssueDry that numbers the key after the epics recorded
CreateIssueDry_KeyFromTable(c, t, fields, summ, issue_type, epic_name) ==
    LET counter  == c.dry_run_counter + 1
        fake_key == "DRY-" \o ZeroPad(Digits(Cardinality(DOMAIN c.created_issues) + 1), 4)
        is_epic  == issue_type # "" /\ lower(issue_type) = "epic" /\ epic_name # ""
        created  == IF is_epic THEN Put(c.created_issues, epic_name, fake_key)
                    ELSE c.created_issues
        holders  == IF is_epic THEN MapEpicDry(c.epic_placeholders, epic_name, fake_key)
                    ELSE c.epic_placeholders
    IN  Outcome([c EXCEPT !.dry_run_counter = counter,
                          !.created_issues = created,
                          !.epic_placeholders = holders],
                t, TRUE, fields,
                [key |-> fake_key,
                 id  |-> "dry-" \o Digits(Cardinality(DOMAIN created) + 1)])

CreateIssueDry(c, t, fields, summ, issue_type, epic_name) ==
    LET counter  == c.dry_run_counter + 1
        fake_key == "DRY-" \o ZeroPad(Digits(counter), 4)
        is_epic  == issue_type # "" /\ lower(issue_type) = "epic" /\ epic_name # ""
        created  == IF is_epic THEN Put(c.created_issues, epic_name, fake_key)
                    ELSE c.created_issues
        holders  == IF is_epic THEN MapEpicDry(c.epic_placeholders, epic_name, fake_key)
                    ELSE c.epic_placeholders
    IN  Outcome([c EXCEPT !.dry_run_counter = counter,
                          !.created_issues = created,
                          !.epic_placeholders = holders],
                t, TRUE, fields,
                [key |-> fake_key,
                 id  |-> "dry-" \o Digits(Cardinality(DOMAIN created) + 1)])

\* The tracker numbers the issues of a project in the order it creates them.
TrackerKey(t, fields) == fields["project"] \o "-" \o Digits(t.created + 1)

\* Variant of CreateIssueLive that records the epic before the tracker answers
CreateIssueLive_RecordFirst(c, t, fields, summ, issue_type, epic_name, accept) ==
    LET key     == TrackerKey(t, fields)
        is_epic == issue_type # "" /\ lower(issue_type) = "epic" /\ epic_name # ""
        created == IF is_epic THEN Put(c.created_issues, epic_name, key)
                   ELSE c.created_issues
        holders == IF is_epic THEN MapEpicLive(c.epic_placeholders, epic_name, key)
                   ELSE c.epic_placeholders
        after   == [c EXCEPT !.created_issues = created, !.epic_placeholders = holders]
    IN  IF accept
        THEN Outcome(after, [t EXCEPT !.calls = @ + 1, !.created = @ + 1],
                     TRUE, fields, [key |-> key, id |-> Digits(t.created + 1)])
        ELSE Outcome(after, [t EXCEPT !.calls = @ + 1], TRUE, fields, NoResult)

\* Variant of CreateIssueLive that names an epic after its Summary when it
\* has no Epic Name
CreateIssueLive_SummaryAsName(c, t, fields, summ, issue_type, epic_name, accept) ==
    IF accept
    THEN LET key     == TrackerKey(t, fields)
             name    == IF epic_name # "" THEN epic_name ELSE summ
             is_epic == issue_type # "" /\ lower(issue_type) = "epic"
             created == IF is_epic THEN Put(c.created_issues, name, key)
                        ELSE c.created_issues
             holders == IF is_epic THEN MapEpicLive(c.epic_placeholders, name, key)
                        ELSE c.epic_placeholders
         IN  Outcome([c EXCEPT !.created_issues = created,
                               !.epic_placeholders = holders],
                     [t EXCEPT !.calls = @ + 1, !.created = @ + 1],
                     TRUE, fields,
                     [key |-> key, id |-> Digits(t.created + 1)])
    ELSE Outcome(c, [t EXCEPT !.calls = @ + 1], TRUE, fields, NoResult)

CreateIssueLive(c, t, fields, summ, issue_type, epic_name, accept) ==
    IF accept
    THEN LET key     == TrackerKey(t, fields)
             is_epic == issue_type # "" /\ lower(issue_type) = "epic" /\ epic_name # ""
             created == IF is_epic THEN Put(c.created_issues, epic_name, key)
                        ELSE c.created_issues
             holders == IF is_epic THEN MapEpicLive(c.epic_placeholders, epic_name, key)
                        ELSE c.epic_placeholders
         IN  Outcome([c EXCEPT !.created_issues = created,
                               !.epic_placeholders = holders],
                     [t EXCEPT !.calls = @ + 1, !.created = @ + 1],
                     TRUE, fields,
                     [key |-> key, id |-> Digits(t.created + 1)])
    ELSE Outcome(c, [t EXCEPT !.calls = @ + 1], TRUE, fields, NoResult)

\* Variant of create_issue without the dry-run branch
create_issue_NoDryRun(c, t, fields, summ, issue_type, epic_name, accept) ==
    CreateIssueLive(c, t, fields, summ, issue_type, epic_name, accept)

create_issue(c, t, fields, summ, issue_type, epic_name, accept) ==
    IF c.dry_run
    THEN CreateIssueDry(c, t, fields, summ, issue_type, epic_name)
    ELSE CreateIssueLive(c, t, fields, summ, issue_type, epic_name, accept)

\* Variant of WithEpicLink that passes an unresolved token through
WithEpicLink_KeepToken(c, fields, epic_link) ==
    IF epic_link # ""
    THEN LET resolved_epic_link == resolve_epic_placeholder(c, epic_link)
         IN  Put(fields, EpicLinkField,
                 IF Truthy(resolved_epic_link) THEN resolved_epic_link ELSE epic_link)
    ELSE fields

\* Variant of WithDate that sets the field whatever convert_date gave
WithDate_Always(fields, field, date) == Put(fields, field, date)

\* create_issue_from_row: a date field of the payload, left out when
\* convert_date gave None
WithDate(fields, field, date) ==
    IF Truthy(date) THEN Put(fields, field, date) ELSE fields

\* create_issue_from_row: the Epic Link field of the payload
WithEpicLink(c, fields, epic_link) ==
    IF epic_link # ""
    THEN LET resolved_epic_link == resolve_epic_placeholder(c, epic_link)
         IN  IF Truthy(resolved_epic_link)
             THEN Put(fields, EpicLinkField, resolved_epic_link)
             ELSE fields
    ELSE fields

\* Variant of WithParentLink that passes an unresolved <parent_link> through
WithParentLink_KeepLiteral(c, fields, parent_link) ==
    IF parent_link # ""
    THEN IF parent_link = "<parent_link>" /\ Truthy(c.parent_project_key)
         THEN Put(fields, ParentLinkField, c.parent_project_key)
         ELSE Put(fields, ParentLinkField, parent_link)
    ELSE fields

\* create_issue_from_row: the Parent Link field of the payload
WithParentLink(c, fields, parent_link) ==
    IF parent_link # ""
    THEN IF parent_link = "<parent_link>" /\ Truthy(c.parent_project_key)
         THEN Put(fields, ParentLinkField, c.parent_project_key)
         ELSE IF parent_link # "<parent_link>" /\ strip(parent_link) # ""
         THEN Put(fields, ParentLinkField, parent_link)
         ELSE fields
    ELSE fields

create_issue_from_row(c, t, row, accept) ==
    LET issue_type  == strip(RowGet(row, "Issue Type", ""))
        summ        == strip(RowGet(row, "Summary", ""))
        epic_name   == strip(RowGet(row, "Epic Name", ""))
        epic_link   == strip(RowGet(row, "Epic Link", ""))
        due_date    == convert_date(RowGet(row, "Due Date", ""))
        target_start == convert_date(RowGet(row, "Target Start", ""))
        parent_link == strip(RowGet(row, "Parent Link", ""))
    IN  IF summ = "" \/ issue_type = ""
        THEN Outcome(c, t, FALSE, <<>>, NoResult)
        ELSE LET base == [k \in {"project", "summary", "issuetype"} |->
                             CASE k = "project"   -> TargetProject
                               [] k = "summary"   -> summ
                               [] k = "issuetype" -> issue_type]
                 named == IF lower(issue_type) = "epic" /\ epic_name # ""
                          THEN Put(base, EpicNameField, epic_name)
                          ELSE base
                 due    == WithDate(named, DueDateField, due_date)
                 dated  == WithDate(due, TargetStartField, target_start)
                 linked == WithEpicLink(c, dated, epic_link)
                 fields == WithParentLink(c, linked, parent_link)
             IN  create_issue(c, t, fields, summ, issue_type, epic_name, accept)

----------------------------------------------------------------------------
(* process_csv *)

\* not any(value.strip() for value in row.values() if value)
IsEmptyRow(row) == ~ \E k \in DOMAIN row : row[k] # "" /\ strip(row[k]) # ""

\* Variant of LoadRows that skips a section marker and reads on
RECURSIVE LoadRows_SkipMarkers(_, _)
LoadRows_SkipMarkers(rows, row_num) ==
    IF rows = <<>> THEN <<>>
    ELSE LET row       == Head(rows)
             first_col == strip(RowGet(row, "Milestone", ""))
         IN  IF first_col \in SectionMarkers \/ IsEmptyRow(row)
             THEN LoadRows_SkipMarkers(Tail(rows), row_num + 1)
             ELSE <<[row_num |-> row_num, row |-> row]>>
                      \o LoadRows_SkipMarkers(Tail(rows), row_num + 1)

\* Variant of LoadRows that compares the Milestone cell as it is written
RECURSIVE LoadRows_Untrimmed(_, _)
LoadRows_Untrimmed(rows, row_num) ==
    IF rows = <<>> THEN <<>>
    ELSE LET row       == Head(rows)
             first_col == RowGet(row, "Milestone", "")
         IN  IF first_col \in SectionMarkers THEN <<>>
             ELSE IF IsEmptyRow(row) THEN LoadRows_Untrimmed(Tail(rows), row_num + 1)
             ELSE <<[row_num |-> row_num, row |-> row]>>
                      \o LoadRows_Untrimmed(Tail(rows), row_num + 1)

\* The reading loop: enumerate(reader, start=2), break at the first section
\* marker, skip empty rows.
RECURSIVE LoadRows(_, _)
LoadRows(rows, row_num) ==
    IF rows = <<>> THEN <<>>
    ELSE LET row       == Head(rows)
             first_col == strip(RowGet(row, "Milestone", ""))
         IN  IF first_col \in SectionMarkers THEN <<>>
             ELSE IF IsEmptyRow(row) THEN LoadRows(Tail(rows), row_num + 1)
             ELSE <<[row_num |-> row_num, row |-> row]>>
                      \o LoadRows(Tail(rows), row_num + 1)

\* row.get('Issue Type', '').strip().lower()
IssueCategory(row) == lower(strip(RowGet(row, "Issue Type", "")))

ProjectRowsOf(rows) ==
    SelectSeq(rows, LAMBDA e : IssueCategory(e.row) = "project")

\* Variant of EpicRowsOf that compares the cell as written (no strip, no lower)
EpicRowsOf_AsWritten(rows) ==
    SelectSeq(rows, LAMBDA e : RowGet(e.row, "Issue Type", "") = "epic")

EpicRowsOf(rows) ==
    SelectSeq(rows, LAMBDA e : IssueCategory(e.row) = "epic")

\* Variant of OtherRowsOf that leaves out the project rows only
OtherRowsOf_EpicsToo(rows) ==
    SelectSeq(rows, LAMBDA e : IssueCategory(e.row) # "project")

OtherRowsOf(rows) ==
    SelectSeq(rows, LAMBDA e : IssueCategory(e.row) \notin {"project", "epic"})

\* if result:
ResultOk(result) == DOMAIN result # {}

\* Variant of StoreParent that lets every successful project row set the key
StoreParent_Overwrite(c, result) == [c EXCEPT !.parent_project_key = result["key"]]

\* Phase 1 only: the first project issue's key becomes the parent key
StoreParent(c, result) ==
    IF ~Truthy(c.parent_project_key)
    THEN [c EXCEPT !.parent_project_key = result["key"]]
    ELSE c

\* One iteration of a phase loop, up to the counters: the row is handed to
\* create_issue_from_row, and in phase 1 a success may set the parent key.
RowStep(c, t, e, phase, accept) ==
    LET out == create_issue_from_row(c, t, e.row, accept)
    IN  IF phase = "project" /\ ResultOk(out.result)
        THEN [out EXCEPT !.creator = StoreParent(out.creator, out.result)]
        ELSE out

Entry(e, phase, out, accept) ==
    [row_num |-> e.row_num, row |-> e.row, phase |-> phase, before |-> creator,
     created |-> created_count, failed |-> failed_count, called |-> out.called, fields |-> out.fields, result |-> out.result,
     rejected |-> out.called /\ ~creator.dry_run /\ ~accept]

\* Variant of Count in which a failed row ends the run
Count_AbortOnFailure(e, phase, out, accept) ==
    /\ creator' = out.creator
    /\ tracker' = out.tracker
    /\ created_count' = IF ResultOk(out.result) THEN created_count + 1 ELSE created_count
    /\ failed_count' = IF ResultOk(out.result) THEN failed_count ELSE failed_count + 1
    /\ submitted' = Append(submitted, Entry(e, phase, out, accept))
    /\ idx' = idx + 1
    /\ pc' = IF ResultOk(out.result) THEN pc ELSE "done"
    /\ UNCHANGED <<csv_file, all_rows, project_rows, epic_rows, other_rows, summary>>
    /\ UNCHANGED <<csv_exists, argv, environ, dotenv, creator_config, creator_exit_code, config_file,
                   processor_vars, download_vars>>

\* if result: created_count += 1  else: failed_count += 1
Count(e, phase, out, accept) ==
    /\ creator' = out.creator
    /\ tracker' = out.tracker
    /\ created_count' = IF ResultOk(out.result) THEN created_count + 1 ELSE created_count
    /\ failed_count' = IF ResultOk(out.result) THEN failed_count ELSE failed_count + 1
    /\ submitted' = Append(submitted, Entry(e, phase, out, accept))
    /\ idx' = idx + 1
    /\ UNCHANGED <<csv_file, all_rows, project_rows, epic_rows, other_rows, pc, summary>>
    /\ UNCHANGED <<csv_exists, argv, environ, dotenv, creator_config, creator_exit_code, config_file,
                   processor_vars, download_vars>>

\* What the tracker may answer; a dry run never asks it
Answers == IF creator.dry_run THEN {TRUE} ELSE BOOLEAN

\* JiraBulkCreator.load_config: the parsed artifact, or {} with a warning when
\* the file is missing or is not JSON
creator_load_config(file) ==
    IF ~file.exists THEN <<>>
    ELSE LET doc == json_loads(file.text)
         IN  IF doc.t = "err" THEN <<>> ELSE PyConfig(doc)

\* The start of process_csv: load the config, then read and partition the
\* rows; a missing CSV is reported and process_csv returns
ReadCsv ==
    /\ pc = "read"
    /\ creator_config' = creator_load_config(config_file)
    /\ IF csv_exists
       THEN /\ LET loaded == LoadRows(csv_file, 2)
               IN  /\ all_rows' = loaded
                   /\ project_rows' = ProjectRowsOf(loaded)
                   /\ epic_rows' = EpicRowsOf(loaded)
                   /\ other_rows' = OtherRowsOf(loaded)
            /\ pc' = "project"
            /\ UNCHANGED creator_exit_code
       ELSE /\ pc' = "done"
            /\ creator_exit_code' = 0
            /\ UNCHANGED <<all_rows, project_rows, epic_rows, other_rows>>
    /\ idx' = 1
    /\ UNCHANGED <<csv_file, creator, tracker, created_count, failed_count,
                   submitted, summary, csv_exists, argv, environ, dotenv,
                   config_file, processor_vars, download_vars>>

ProcessProjectRow ==
    /\ pc = "project"
    /\ idx <= Len(project_rows)
    /\ \E accept \in Answers :
         LET e == project_rows[idx]
         IN  Count(e, "project", RowStep(creator, tracker, e, "project", accept), accept)

EndProjectPhase ==
    /\ pc = "project"
    /\ idx > Len(project_rows)
    /\ pc' = "epic"
    /\ idx' = 1
    /\ UNCHANGED <<csv_file, creator, tracker, all_rows, project_rows, epic_rows,
                   other_rows, created_count, failed_count, submitted, summary>>
    /\ UNCHANGED <<csv_exists, argv, environ, dotenv, creator_config, creator_exit_code, config_file,
                   processor_vars, download_vars>>

ProcessEpicRow ==
    /\ pc = "epic"
    /\ idx <= Len(epic_rows)
    /\ \E accept \in Answers :
         LET e == epic_rows[idx]
         IN  Count(e, "epic", RowStep(creator, tracker, e, "epic", accept), accept)

EndEpicPhase ==
    /\ pc = "epic"
    /\ idx > Len(epic_rows)
    /\ pc' = "other"
    /\ idx' = 1
    /\ UNCHANGED <<csv_file, creator, tracker, all_rows, project_rows, epic_rows,
                   other_rows, created_count, failed_count, submitted, summary>>
    /\ UNCHANGED <<csv_exists, argv, environ, dotenv, creator_config, creator_exit_code, config_file,
                   processor_vars, download_vars>>

ProcessOtherRow ==
    /\ pc = "other"
    /\ idx <= Len(other_rows)
    /\ \E accept \in Answers :
         LET e == other_rows[idx]
         IN  Count(e, "other", RowStep(creator, tracker, e, "other", accept), accept)

\* Variant of PrintSummary that reports only a run without failures
PrintSummary_OnlyWhenClean ==
    /\ pc = "other"
    /\ idx > Len(other_rows)
    /\ failed_count = 0
    /\ summary' = [dry_run |-> creator.dry_run, created |-> created_count,
                   failed |-> failed_count, parent |-> creator.parent_project_key]
    /\ pc' = "done"
    /\ creator_exit_code' = 0
    /\ UNCHANGED <<csv_file, creator, tracker, all_rows, project_rows, epic_rows,
                   other_rows, created_count, failed_count, idx, submitted>>
    /\ UNCHANGED <<csv_exists, argv, environ, dotenv, creator_config, config_file, processor_vars, download_vars>>

\* The summary printed after the three phases
PrintSummary ==
    /\ pc = "other"
    /\ idx > Len(other_rows)
    /\ summary' = [dry_run |-> creator.dry_run, created |-> created_count,
                   failed |-> failed_count, parent |-> creator.parent_project_key]
    /\ pc' = "done"
    /\ creator_exit_code' = 0
    /\ UNCHANGED <<csv_file, creator, tracker, all_rows, project_rows, epic_rows,
                   other_rows, created_count, failed_count, idx, submitted>>
    /\ UNCHANGED <<csv_exists, argv, environ, dotenv, creator_config, config_file, processor_vars, download_vars>>

----------------------------------------------------------------------------
(* ticket_creator.main: the command line, the token, the creator *)

\* The creator before main has built it
NoCreator == <<>>

DryRunFlags == {"--dry-run", "--pretend"}

\* load_dotenv: the variable of .env is put in the environment unless the
\* environment already has it
load_dotenv(env, file) == IF env = None /\ file # None THEN file ELSE env

\* The command-line arguments main looks for a token in
TokenArgs(args) == SelectSeq(Tail(args), LAMBDA arg : arg \notin DryRunFlags)

\* Variant of HasToken that takes every run to have a token
HasToken_Unchecked(env, args) == TRUE

\* A live run has a token: JIRA_API_TOKEN is set to a non-empty value, or
\* there is an argument to take for it
HasToken(env, args) == Truthy(env) \/ args # <<>>

\* main up to its call of process_csv: a live run without a token exits with
\* status 1, any other run builds the creator
Main ==
    /\ pc = "main"
    /\ LET dry_run == \E i \in 1..Len(argv) : argv[i] \in DryRunFlags
           env     == load_dotenv(environ, dotenv)
       IN  /\ environ' = env
           /\ IF ~dry_run /\ ~HasToken(env, TokenArgs(argv))
              THEN /\ pc' = "done"
                   /\ creator_exit_code' = 1
                   /\ UNCHANGED creator
              ELSE /\ creator' = Construct(dry_run)
                   /\ pc' = "read"
                   /\ UNCHANGED creator_exit_code
    /\ UNCHANGED <<csv_file, tracker, all_rows, project_rows, epic_rows, other_rows,
                   created_count, failed_count, idx, submitted, summary, csv_exists,
                   argv, dotenv, creator_config, config_file, processor_vars, download_vars>>

----------------------------------------------------------------------------
(* file_manager and google_sheets_handler: the download of the template *)

\* The characters of [a-zA-Z0-9-_]
IdAlphabet == "abcdefghijklmnopqrstuvwxyzABCDEFGHIJKLMNOPQRSTUVWXYZ0123456789-_"

\* c is a character of the class, given by its characters
InClass(class, c) == \E i \in 1..Len(class) : SubSeq(class, i, i) = c

\* re.search(prefix + '(' + class + '+)', s).group(1) for a prefix out of a set
\* of literal prefixes of one length n and a character class: the longest run
\* of the class after the leftmost prefix that one follows; None without match
SearchGroup(s, prefixes, n, class) ==
    LET at == { i \in 1..(Len(s) - n) :
                  /\ SubSeq(s, i, i + n - 1) \in prefixes
                  /\ InClass(class, SubSeq(s, i + n, i + n)) }
    IN  IF at = {} THEN None
        ELSE LET from == Lowest(at) + n
                 upto == CHOOSE e \in from..Len(s) :
                            /\ \A k \in from..e : InClass(class, SubSeq(s, k, k))
                            /\ e = Len(s) \/ ~InClass(class, SubSeq(s, e + 1, e + 1))
             IN  SubSeq(s, from, upto)

\* extract_sheet_id: the id after '/spreadsheets/d/', else after 'id=', else
\* None (ValueError)
extract_sheet_id(url) ==
    LET first == SearchGroup(url, {"/spreadsheets/d/"}, 16, IdAlphabet)
    IN  IF first # None THEN first ELSE SearchGroup(url, {"id="}, 3, IdAlphabet)

\* The gid of the export: the digits after '#gid=' or '&gid=' in the URL, else
\* the default
GidOf(url, gid) ==
    LET found == SearchGroup(url, {"#gid=", "&gid="}, 5, "0123456789")
    IN  IF found # None THEN found ELSE gid

ExportUrl(sheet_id, gid) ==
    "https://docs.google.com/spreadsheets/d/" \o sheet_id \o "/export?format=csv&gid=" \o gid

\* response.raise_for_status raises for the 4xx and 5xx answers
RaisesForStatus(response) == response.status >= 400

\* The handler's requests: the session's, then without the session when the
\* answer is 401; raised is a requests exception of either
Fetch(world) ==
    IF world.session_get.raised THEN world.session_get
    ELSE IF world.session_get.status = 401 THEN world.requests_get
    ELSE world.session_get

\* google_sheets_handler.download_csv_from_google_sheets: True with the
\* content written to output_path, or False; every exception is caught
download_handler(url, output_path, gid, world, file) ==
    LET sheet_id == extract_sheet_id(url)
        response == Fetch(world)
        written  == [exists |-> TRUE, path |-> output_path,
                     content |-> response.content]
    IN  IF sheet_id = None THEN [result |-> FALSE, file |-> file, fetched |-> None]
        ELSE LET asked == ExportUrl(sheet_id, GidOf(url, gid))
             IN  IF response.raised \/ RaisesForStatus(response)
                 THEN [result |-> FALSE, file |-> file, fetched |-> asked]
                 ELSE IF response.content.bytes = ""
                 THEN [result |-> FALSE, file |-> file, fetched |-> asked]
                 ELSE IF ~world.writable
                 THEN [result |-> FALSE, file |-> file, fetched |-> asked]
                 ELSE IF ~response.content.utf8
                 THEN [result |-> FALSE, file |-> written, fetched |-> asked]
                 ELSE [result |-> TRUE, file |-> written, fetched |-> asked]

\* The parameters of the handler, in order
HandlerParameters == <<"sheets_url", "output_path", "gid">>

\* A Python call binds: no more positional arguments than parameters and every
\* keyword the name of a parameter not given by position; else TypeError
Binds(parameters, positional, keywords) ==
    /\ positional <= Len(parameters)
    /\ keywords \subseteq { parameters[i] : i \in (positional + 1)..Len(parameters) }

\* config.get('files', 'csv_file_input', fallback=...) under the working
\* directory
InputPath == "workspace/input/Metisara Template - Import.csv"

\* file_manager.download_csv_from_google_sheets: the handler is imported and
\* called with the URL, the destination and force=force; the ImportError and
\* any other exception are caught and give False
DownloadCsv ==
    /\ download_pc = "call"
    /\ IF ~web.importable
       THEN /\ success' = FALSE
            /\ UNCHANGED <<dest_file, fetched>>
       ELSE IF ~Binds(HandlerParameters, 2, {"force"})
       THEN /\ success' = FALSE
            /\ UNCHANGED <<dest_file, fetched>>
       ELSE LET out == download_handler(sheets_url, InputPath, "0", web, dest_file)
            IN  /\ success' = out.result
                /\ dest_file' = out.file
                /\ fetched' = out.fetched
    /\ download_pc' = "returned"
    /\ UNCHANGED <<sheets_url, force, web, config_file, driver_vars, processor_vars>>

\* google_sheets_handler.main with the URL as its only argument: the handler
\* is called with the URL, no output path (the configured input path is taken)
\* and the first sheet
HandlerMain ==
    /\ download_pc = "main"
    /\ LET out == download_handler(sheets_url, InputPath, "0", web, dest_file)
       IN  /\ success' = out.result
           /\ dest_file' = out.file
           /\ fetched' = out.fetched
    /\ download_pc' = "exited"
    /\ UNCHANGED <<sheets_url, force, web, config_file, driver_vars, processor_vars>>

\* No file at the destination
NoDownload == [exists |-> FALSE, path |-> InputPath, content |-> [bytes |-> "", utf8 |-> TRUE]]

\* An answer of the web: an exception of requests, or a status and a body
Answer(raised, status, bytes, utf8) ==
    [raised |-> raised, status |-> status, content |-> [bytes |-> bytes, utf8 |-> utf8]]

\* The download when it is not run
DownloadIdle ==
    /\ sheets_url = ""
    /\ force = FALSE
    /\ web = [importable |-> TRUE, writable |-> TRUE,
              session_get |-> Answer(TRUE, 0, "", TRUE),
              requests_get |-> Answer(TRUE, 0, "", TRUE)]
    /\ dest_file = NoDownload
    /\ fetched = None
    /\ success = FALSE
    /\ download_pc = "idle"

----------------------------------------------------------------------------
(* Specifications *)

\* A file that is not on disk
NoFile == [exists |-> FALSE, text |-> ""]

\* The template processor when it is not run
ProcessorIdle ==
    /\ input_file = [exists |-> FALSE, rows |-> <<>>]
    /\ extracted_config = <<>>
    /\ current_section = None
    /\ scanned = <<>>
    /\ loaded_config = <<>>
    /\ in_config_section = FALSE
    /\ ra_tickets_added = FALSE
    /\ conception_tickets_added = FALSE
    /\ rows_written = 0
    /\ outfile = <<>>
    /\ emitted = <<>>
    /\ stage = "idle"
    /\ line = 1
    /\ exit_code = 0

InitWith(rows, n) ==
    /\ csv_file \in SeqsUpTo(rows, n)
    /\ \E dry_run \in BOOLEAN : Launched(dry_run)
    /\ tracker = [calls |-> 0, created |-> 0]
    /\ all_rows = <<>>
    /\ project_rows = <<>>
    /\ epic_rows = <<>>
    /\ other_rows = <<>>
    /\ created_count = 0
    /\ failed_count = 0
    /\ pc = "read"
    /\ idx = 1
    /\ submitted = <<>>
    /\ summary = <<>>
    /\ csv_exists = TRUE
    /\ creator_config = <<>>
    /\ creator_exit_code = 0
    /\ config_file = NoFile
    /\ ProcessorIdle
    /\ DownloadIdle

Init == InitWith(Catalogue, MaxRows)

InitEpics == InitWith(EpicCatalogue, MaxEpicRows)

InitLoad == InitWith(LoadCatalogue, MaxRows)

Next ==
    \/ ReadCsv
    \/ ProcessProjectRow
    \/ EndProjectPhase
    \/ ProcessEpicRow
    \/ EndEpicPhase
    \/ ProcessOtherRow
    \/ PrintSummary

Spec == Init /\ [][Next]_vars

SpecEpics == InitEpics /\ [][Next]_vars

SpecLoad == InitLoad /\ [][Next]_vars

\* A ticket row with a Due Date and a Target Start cell
DateRow(issue_type, due_date, target_start) ==
    Put(Put(Row("M03", issue_type, "Train", "", "", ""), "Due Date", due_date),
        "Target Start", target_start)

\* Cells as people type dates: one for each accepted pattern, with blanks
\* around it, in other letter case, at the turn of the two-digit century, on
\* a leap day; and cells that are no date: blank, a day the month lacks, a
\* year of three digits, the ISO form, a word
DateSamples ==
    { "4/Sep/25", "18/11/25", "18-11-25", "18.11.25", "4/Sep/2025", "18/11/2025",
      " 04/sep/25 ", "29/02/24", "1/1/69", "31/12/68",
      "", "  ", "31/02/25", "18/11/205", "2025-11-18", "soon", "13/13/25" }

DateCatalogue ==
    { DateRow("Task", d, "") : d \in DateSamples }
        \cup { DateRow("Task", "", "4/Sep/25"), DateRow("Task", "soon", "18/11/2025"),
               DateRow("Epic", "18.11.25", "tbd"), DateRow("Project", "x", " ") }

InitDates == InitWith(DateCatalogue, MaxDateRows)

\* process_csv over files whose rows carry dates
SpecDates == InitDates /\ [][Next]_vars

\* Rows whose Epic Link and Parent Link cells hold a bound token, an unbound
\* token, a token other than the parent's, and plain issue keys
LinkCatalogue ==
    { Row("M00", "Project", "Project X", "", "", ""),
      Row("M01", "Epic", "Conception epic", "Conception", "", "<parent_link>"),
      Row("M01", "Story", "Charter", "", "<conception_epic>", "<parent_link>"),
      Row("M02", "Story", "Kickoff", "", "<other_epic>", "<initiative_link>"),
      Row("M03", "Task", "Train", "", "EXT-5", "EXT-7"),
      Row("M03", "Task", "Review", "", " <conception_epic> ", " <parent_link> ") }

InitLinks == InitWith(LinkCatalogue, MaxLinkRows)

\* process_csv over files whose rows carry links
SpecLinks == InitLinks /\ [][Next]_vars

\* Epics that classify to one placeholder under different names and under
\* one name, and remainder rows that reference the placeholders
RebindCatalogue ==
    { Row("M00", "Project", "Project X", "", "", ""),
      Row("M04", "Epic", "UAT epic", "UAT", "", ""),
      Row("M04", "Epic", "Closure epic", "Project Closure", "", ""),
      Row("M03", "epic", "Enablement epic", "Closure m03", "", ""),
      Row("M04", "Story", "Sign-off", "", "<uat_closure_epic>", ""),
      Row("M03", "Task", "Train", "", " <enablement_epic> ", "") }

InitRebind == InitWith(RebindCatalogue, MaxRebindRows)

\* process_csv over files in which epics share a placeholder
SpecRebind == InitRebind /\ [][Next]_vars

SummaryCatalogue ==
    { Row("M00", "Project", "Project X", "", "", ""),
      Row("M05", "Epic", "Misc epic", "Misc", "", ""),
      Row("M03", "Task", "Train", "", "", "<parent_link>"),
      Row("M03", "", "No type", "", "", "") }

InitFair == InitWith(SummaryCatalogue, MaxSummaryRows)

\* process_csv runs to its end: no step of it waits on anything but the
\* tracker's answer, which create_issue receives or catches as an exception
SpecFair == InitFair /\ [][Next]_vars /\ WF_vars(Next)

----------------------------------------------------------------------------
(* csv_processor: the two runs of main, as actions *)

\* The submission driver when it is not run
DriverIdle ==
    /\ csv_file = <<>>
    /\ Launched(TRUE)
    /\ tracker = [calls |-> 0, created |-> 0]
    /\ all_rows = <<>>
    /\ project_rows = <<>>
    /\ epic_rows = <<>>
    /\ other_rows = <<>>
    /\ created_count = 0
    /\ failed_count = 0
    /\ pc = "idle"
    /\ idx = 1
    /\ submitted = <<>>
    /\ summary = <<>>
    /\ csv_exists = FALSE
    /\ creator_config = <<>>
    /\ creator_exit_code = 0

\* The comment line the processor puts at the head of its output
DisclaimerLine ==
    <<"# AI-Generated file - Review before production use | Generated: 2025-01-01 00:00:00">>

\* main --generate-config, one row of extract_config_from_csv's loop; a
\* template that cannot be opened ends the run with exit status 1
ExtractRow ==
    /\ stage = "extract"
    /\ input_file.exists => line <= Len(input_file.rows)
    /\ IF ~input_file.exists
       THEN /\ stage' = "exit"
            /\ exit_code' = 1
            /\ UNCHANGED <<extracted_config, current_section, scanned, line>>
       ELSE LET cells == input_file.rows[line]
                step  == ExtractLine(current_section, extracted_config,
                                     input_file.rows[1], cells)
            IN  /\ current_section' = step.section
                /\ extracted_config' = step.config
                /\ scanned' = Append(scanned,
                                     [line |-> line, row |-> cells,
                                      before |-> current_section,
                                      after |-> step.section,
                                      config_before |-> extracted_config,
                                      config |-> step.config])
                /\ line' = line + 1
                /\ UNCHANGED <<stage, exit_code>>
    /\ UNCHANGED <<input_file, loaded_config, in_config_section, ra_tickets_added,
                   conception_tickets_added, rows_written, outfile, emitted,
                   config_file, driver_vars, download_vars>>

\* The end of extract_config_from_csv's loop: the epic tokens and the indexed
\* placeholders are added and the config is returned to main
FinishExtract ==
    /\ stage = "extract"
    /\ input_file.exists
    /\ line > Len(input_file.rows)
    /\ extracted_config' = ExtractFinish(extracted_config)
    /\ stage' = "save"
    /\ UNCHANGED <<input_file, current_section, scanned, loaded_config,
                   in_config_section, ra_tickets_added, conception_tickets_added,
                   rows_written, outfile, emitted, line, exit_code, config_file,
                   driver_vars, download_vars>>

\* save_config: the artifact is written and the run ends; the next run of the
\* processor is the one that loads it
SaveConfig ==
    /\ stage = "save"
    /\ config_file' = [exists |-> TRUE, text |-> json_dump(extracted_config)]
    /\ stage' = "load"
    /\ UNCHANGED <<input_file, extracted_config, current_section, scanned,
                   loaded_config, in_config_section, ra_tickets_added,
                   conception_tickets_added, rows_written, outfile, emitted, line,
                   exit_code, driver_vars, download_vars>>

\* main without --generate-config up to the loop: load_config, then the files
\* are opened and the comment line is written; a missing or malformed
\* artifact, or a missing template, ends the run with exit status 1
LoadConfig ==
    /\ stage = "load"
    /\ \E doc \in { IF config_file.exists THEN json_loads(config_file.text)
                     ELSE JsonErr } :
           IF doc.t = "err"
           THEN /\ stage' = "exit"
                /\ exit_code' = 1
                /\ UNCHANGED <<loaded_config, outfile, line>>
           ELSE /\ loaded_config' = PyConfig(doc)
                /\ IF input_file.exists
                   THEN /\ outfile' = <<DisclaimerLine>>
                        /\ stage' = "substitute"
                        /\ line' = 1
                        /\ UNCHANGED exit_code
                   ELSE /\ stage' = "exit"
                        /\ exit_code' = 1
                        /\ UNCHANGED <<outfile, line>>
    /\ UNCHANGED <<input_file, extracted_config, current_section, scanned,
                   in_config_section, ra_tickets_added, conception_tickets_added,
                   rows_written, emitted, config_file, driver_vars, download_vars>>

\* What one row of replace_placeholders_in_csv's loop does: the flag after the
\* row's first cell, whether the row is dropped, the row as written, and the
\* generated tickets written after it
RowResult(flag0, ra_added, conception_added, row, cfg, replacements) ==
    LET flag == SectionFlag(flag0, row)
    IN  IF IsUserTemplateRow(flag, row)
        THEN [flag |-> flag, dropped |-> TRUE, raises |-> FALSE, processed |-> <<>>,
              ra |-> <<>>, ra_fired |-> FALSE,
              conception |-> <<>>, conception_fired |-> FALSE]
        ELSE LET processed_row == IF flag THEN row
                                  ELSE SubstituteCells(row, replacements)
                 raises == TriggerRaises(cfg, processed_row)
                 ra     == ~raises /\ RaTrigger(cfg, processed_row, ra_added)
                 con    == ~raises
                           /\ ConceptionTrigger(cfg, processed_row, conception_added)
             IN  [flag |-> flag, dropped |-> FALSE, raises |-> raises,
                  processed |-> processed_row,
                  ra |-> IF ra THEN Written(generate_ra_tickets(cfg), replacements)
                         ELSE <<>>,
                  ra_fired |-> ra,
                  conception |->
                      IF con
                      THEN Written(generate_conception_review_tickets(cfg), replacements)
                      ELSE <<>>,
                  conception_fired |-> con]

\* One row of replace_placeholders_in_csv's loop
SubstituteRow ==
    /\ stage = "substitute"
    /\ line <= Len(input_file.rows)
    /\ \E res \in { RowResult(in_config_section, ra_tickets_added,
                                conception_tickets_added, input_file.rows[line],
                                loaded_config,
                                DictGet(loaded_config, "replacements", <<>>)) } :
       LET row == input_file.rows[line]
           out == IF res.dropped THEN <<>>
                  ELSE <<res.processed>> \o res.ra \o res.conception
       IN  /\ in_config_section' = res.flag
           /\ ra_tickets_added' = (ra_tickets_added \/ res.ra_fired)
           /\ conception_tickets_added' =
                  (conception_tickets_added \/ res.conception_fired)
           /\ outfile' = outfile \o out
           /\ rows_written' = rows_written + Len(out)
           /\ emitted' = Append(emitted,
                                [line |-> line, row |-> row,
                                 flag_before |-> in_config_section,
                                 in_section |-> res.flag, dropped |-> res.dropped,
                                 written |-> out, ra_fired |-> res.ra_fired,
                                 conception_fired |-> res.conception_fired])
           /\ IF res.raises
              THEN stage' = "exit" /\ exit_code' = 1 /\ UNCHANGED line
              ELSE line' = line + 1 /\ UNCHANGED <<stage, exit_code>>
    /\ UNCHANGED <<input_file, extracted_config, current_section, scanned,
                   loaded_config, config_file, driver_vars, download_vars>>

\* The reader is exhausted: the files are closed and main returns
FinishSubstitute ==
    /\ stage = "substitute"
    /\ line > Len(input_file.rows)
    /\ stage' = "done"
    /\ exit_code' = 0
    /\ UNCHANGED <<input_file, extracted_config, current_section, scanned,
                   loaded_config, in_config_section, ra_tickets_added,
                   conception_tickets_added, rows_written, outfile, emitted, line,
                   config_file, driver_vars, download_vars>>

\* extract_config_from_csv
NextExtract ==
    \/ ExtractRow
    \/ FinishExtract

\* main --generate-config, then main up to the substitution loop
NextRoundTrip ==
    \/ ExtractRow
    \/ FinishExtract
    \/ SaveConfig
    \/ LoadConfig

\* replace_placeholders_in_csv
NextSubstitute ==
    \/ SubstituteRow
    \/ FinishSubstitute

\* Rows of a template's configuration sections: the three markers, General
\* Configuration rows (a known key, a token the extractor does not know, a key
\* without a value, an epic token, the target project), roster rows (two
\* members, one without a role, the unfilled template row), the roster header
\* and a blank row
ConfigCatalogue ==
    { TemplateRow("General Configuration", "", "", "", "", ""),
      TemplateRow("Resource Allocation Tickets", "", "", "", "", ""),
      TemplateRow("Conception Tickets", "", "", "", "", ""),
      TemplateRow("<project_key>", "ABC", "", "", "", ""),
      TemplateRow("<sponsor>", "Ann", "", "", "", ""),
      TemplateRow("<project_name>", " ", "", "", "", ""),
      TemplateRow("<conception_epic>", "EPIC-1", "", "", "", ""),
      TemplateRow("<target_project>", "TGT", "", "", "", ""),
      TemplateRow("Core", "Lead", "Jane", "j@x.com", "", ""),
      TemplateRow("Ops", "Dev", "Bob", "", "", ""),
      TemplateRow("Core", "", "Jim", "", "", ""),
      TemplateRow("<ra_team>", "<ra_role>", "<ra_name>", "<ra_email>", "", ""),
      TemplateRow("Team", "Role", "Name", "Email", "", ""),
      TemplateRow("", "", "", "", "", "") }

\* A template on disk: the header row, then rows
Template(rows) == [exists |-> TRUE, rows |-> <<Header>> \o rows]

NoTemplate == [exists |-> FALSE, rows |-> <<>>]

\* The processor at the start of a run, at position first, with one of the
\* templates and one of the artifacts on disk; the driver is not run
InitProcessor(templates, files, first) ==
    /\ input_file \in templates
    /\ config_file \in files
    /\ extracted_config = EmptyConfig
    /\ current_section = None
    /\ scanned = <<>>
    /\ loaded_config = <<>>
    /\ in_config_section = FALSE
    /\ ra_tickets_added = FALSE
    /\ conception_tickets_added = FALSE
    /\ rows_written = 0
    /\ outfile = <<>>
    /\ emitted = <<>>
    /\ stage = first
    /\ line = 2
    /\ exit_code = 0
    /\ DriverIdle
    /\ DownloadIdle

InitExtract ==
    InitProcessor({ Template(rows) : rows \in SeqsUpTo(ConfigCatalogue, MaxConfigRows) }
                      \cup {NoTemplate},
                  {NoFile}, "extract")

\* extract_config_from_csv over every template of up to MaxConfigRows rows
SpecExtract == InitExtract /\ [][NextExtract]_vars

\* extract_config_from_csv over the rows of a template from position i on
RECURSIVE ExtractFrom(_, _, _, _)
ExtractFrom(rows, i, section, config) ==
    IF i > Len(rows) THEN ExtractFinish(config)
    ELSE LET step == ExtractLine(section, config, rows[1], rows[i])
         IN  ExtractFrom(rows, i + 1, step.section, step.config)

extract_config_from_csv(file) == ExtractFrom(file.rows, 2, None, EmptyConfig)

\* load_config of what save_config wrote for config
Reloaded(config) == PyConfig(json_loads(json_dump(config)))

\* The artifacts the substitution is run with: one with a project key, a
\* program manager and both rosters, one with a project key alone
RosterTemplate ==
    Template(<< TemplateRow("General Configuration", "", "", "", "", ""),
                TemplateRow("<project_key>", "ABC", "", "", "", ""),
                TemplateRow("<program_manager>", "pm@x.com", "", "", "", ""),
                TemplateRow("Resource Allocation Tickets", "", "", "", "", ""),
                TemplateRow("Core", "Lead", "Jane", "j@x.com", "", ""),
                TemplateRow("Ops", "Dev", "Bob", "", "", ""),
                TemplateRow("Conception Tickets", "", "", "", "", ""),
                TemplateRow("Board", "Chair", "Ann", "a@x.com", "", "") >>)

BareTemplate ==
    Template(<< TemplateRow("General Configuration", "", "", "", "", ""),
                TemplateRow("<project_key>", "ABC", "", "", "", "") >>)

LoadedConfigs ==
    { Reloaded(extract_config_from_csv(RosterTemplate)),
      Reloaded(extract_config_from_csv(BareTemplate)) }

\* Rows of a template as the substitution meets them: tickets with known
\* tokens, with a token no key matches and with none; the user-entry template
\* with its pair in the Summary and in the Description; a marker, a
\* configuration row, a roster row and a blank row; the rows the generated
\* tickets go after; a row of two cells
SubstCatalogue ==
    { TemplateRow("M01", "Story", "<project_key>M01: Kickoff", "Owner <program_manager>",
                  "<initiation_epic>", "<program_manager>"),
      TemplateRow("M02", "Task", "Ask <sponsor>", "", "", ""),
      TemplateRow("M00", "Tracker", "<ra_role> - <ra_name>", "", "", ""),
      TemplateRow("M00", "Tracker", "RA", "<ra_role> - <ra_name>", "", ""),
      TemplateRow("General Configuration", "", "", "", "", ""),
      TemplateRow("<project_key>", "ABC", "", "", "", ""),
      TemplateRow("Core", "Lead", "Jane", "<program_manager>", "", ""),
      TemplateRow("", "", "", "", "", ""),
      TemplateRow("M04", "Epic", "UAT / Project Closure", "", "", ""),
      TemplateRow("Conception", "Story", "Fill in project charter", "", "", ""),
      <<"M05", "Epic">> }

\* The processor after load_config, with the files open and the comment line
\* written
InitSubstitute ==
    /\ input_file \in { Template(rows) : rows \in SeqsUpTo(SubstCatalogue, MaxTemplateRows) }
    /\ config_file = NoFile
    /\ extracted_config = <<>>
    /\ current_section = None
    /\ scanned = <<>>
    /\ loaded_config \in LoadedConfigs
    /\ in_config_section = FALSE
    /\ ra_tickets_added = FALSE
    /\ conception_tickets_added = FALSE
    /\ rows_written = 0
    /\ outfile = <<DisclaimerLine>>
    /\ emitted = <<>>
    /\ stage = "substitute"
    /\ line = 1
    /\ exit_code = 0
    /\ DriverIdle
    /\ DownloadIdle

\* replace_placeholders_in_csv over every template of up to MaxTemplateRows rows
SpecSubstitute == InitSubstitute /\ [][NextSubstitute]_vars

\* Artifacts in which the value of one key holds another key: the same two
\* General Configuration rows in either order
ChainTemplate ==
    Template(<< TemplateRow("General Configuration", "", "", "", "", ""),
                TemplateRow("<project_name>", "Plan <project_key>", "", "", "", ""),
                TemplateRow("<project_key>", "ABC", "", "", "", "") >>)

ChainTemplateSwapped ==
    Template(<< TemplateRow("General Configuration", "", "", "", "", ""),
                TemplateRow("<project_key>", "ABC", "", "", "", ""),
                TemplateRow("<project_name>", "Plan <project_key>", "", "", "", "") >>)

ChainConfigs ==
    { Reloaded(extract_config_from_csv(ChainTemplate)),
      Reloaded(extract_config_from_csv(ChainTemplateSwapped)),
      Reloaded(extract_config_from_csv(BareTemplate)) }

\* Ticket rows with the two keys, with an epic token and with no token
ChainCatalogue ==
    { TemplateRow("M01", "Story", "<project_name> kickoff", "for <project_key>", "", ""),
      TemplateRow("M01", "Task", "<project_key>-<project_key>", "", "<conception_epic>",
                  "<parent_link>"),
      TemplateRow("M02", "Task", "Plain", "a < b", "", ""),
      TemplateRow("M02", "Story", "<project_name>", "<sponsor>", "", "") }

InitChain ==
    /\ input_file \in { Template(rows) : rows \in SeqsUpTo(ChainCatalogue, MaxChainRows) }
    /\ config_file = NoFile
    /\ extracted_config = <<>>
    /\ current_section = None
    /\ scanned = <<>>
    /\ loaded_config \in ChainConfigs
    /\ in_config_section = FALSE
    /\ ra_tickets_added = FALSE
    /\ conception_tickets_added = FALSE
    /\ rows_written = 0
    /\ outfile = <<DisclaimerLine>>
    /\ emitted = <<>>
    /\ stage = "substitute"
    /\ line = 1
    /\ exit_code = 0
    /\ DriverIdle
    /\ DownloadIdle

\* replace_placeholders_in_csv with artifacts whose values hold keys
SpecChain == InitChain /\ [][NextSubstitute]_vars

\* A ticket row of the template with its link cells
TicketRow(milestone, issue_type, summ, description, epic_link, parent_link) ==
    <<milestone, issue_type, summ, description, "", epic_link, "", "",
      "", parent_link, "", "", "", "">>

\* Ticket rows that carry the epic and parent tokens, in their link cells and
\* inside other text; the two rows the generated tickets go after; the
\* user-entry template row
TokenTickets ==
    { TicketRow("M01", "Story", "Charter", "", "<conception_epic>", "<parent_link>"),
      TicketRow("M04", "Epic", "UAT / Project Closure", "", "", "<parent_link>"),
      TicketRow("Conception", "Story", "Fill in project charter for <project_key>", "",
                "<conception_epic>", ""),
      TicketRow("M02", "Task", "See <initiation_epic> and <initiation_epic>",
                "<uat_closure_epic><enablement_epic>", "<resource_alocation_epic>", ""),
      TicketRow("M00", "Tracker", "<ra_role> - <ra_name>", "",
                "<resource_alocation_epic>", "<parent_link>") }

\* The configuration sections at the foot of a template: none; a General
\* section that gives two of the tokens a value; a General section and both
\* rosters
TokenSections ==
    { <<>>,
      << TemplateRow("General Configuration", "", "", "", "", ""),
         TemplateRow("<conception_epic>", "EPIC-1", "", "", "", ""),
         TemplateRow("<parent_link>", "TOP-1", "", "", "", ""),
         TemplateRow("<project_key>", "ABC", "", "", "", "") >>,
      << TemplateRow("General Configuration", "", "", "", "", ""),
         TemplateRow("<project_key>", "ABC", "", "", "", ""),
         TemplateRow("<uat_closure_epic>", "EPIC-9", "", "", "", ""),
         TemplateRow("Resource Allocation Tickets", "", "", "", "", ""),
         TemplateRow("Core", "Lead", "Jane", "j@x.com", "", ""),
         TemplateRow("Conception Tickets", "", "", "", "", ""),
         TemplateRow("Board", "Chair", "Ann", "a@x.com", "", "") >> }

InitPipeline ==
    InitProcessor({ Template(tickets \o sections) :
                      tickets \in SeqsUpTo(TokenTickets, MaxPipelineRows),
                      sections \in TokenSections },
                  {NoFile}, "extract")

\* main --generate-config, then main on the same template
NextPipeline ==
    \/ ExtractRow
    \/ FinishExtract
    \/ SaveConfig
    \/ LoadConfig
    \/ SubstituteRow
    \/ FinishSubstitute

\* The processor's two runs, one after the other
SpecPipeline == InitPipeline /\ [][NextPipeline]_vars

\* Rows of a template whose values put the artifact's encoding to work: a
\* quote, a backslash, a letter outside ASCII, a line break inside a cell
RoundTripCatalogue ==
    { TemplateRow("General Configuration", "", "", "", "", ""),
      TemplateRow("Resource Allocation Tickets", "", "", "", "", ""),
      TemplateRow("<project_key>", "AB\"C", "", "", "", ""),
      TemplateRow("<project_name>", "a\\b", "", "", "", ""),
      TemplateRow("<project_charter>", "x\ny", "", "", "", ""),
      TemplateRow("<target_project>", "TGT", "", "", "", ""),
      TemplateRow("Core", "Lead", "Zoë", "j@x.com", "", ""),
      TemplateRow("Ops", "Dev", "Bob", "", "", "") }

InitRoundTrip ==
    InitProcessor({ Template(rows) : rows \in SeqsUpTo(RoundTripCatalogue, MaxSavedRows) }
                      \cup {NoTemplate},
                  {NoFile}, "extract")

\* main --generate-config, then load_config in the run that follows, over every
\* template of up to MaxSavedRows rows
SpecRoundTrip == InitRoundTrip /\ [][NextRoundTrip]_vars

\* An artifact that is not JSON
MalformedArtifact == [exists |-> TRUE, text |-> "{\"replacements\": "]

\* The artifact save_config writes for a template with a project key
SavedArtifact ==
    [exists |-> TRUE, text |-> json_dump(extract_config_from_csv(BareTemplate))]

SetupArtifacts == {NoFile, MalformedArtifact, SavedArtifact}

SetupTemplateRows ==
    { TemplateRow("M01", "Story", "<project_key>M01: Kickoff", "", "", ""),
      TemplateRow("M04", "Epic", "UAT / Project Closure", "", "", "") }

SetupCsvRows ==
    { Row("M00", "Project", "Project X", "", "", ""),
      Row("M05", "Epic", "Misc epic", "Misc", "", ""),
      Row("M03", "Task", "Train", "", "", "") }

\* A run of the processor's main in the substitution stage, from load_config
InitSetupProcessor ==
    InitProcessor({ Template(rows) : rows \in SeqsUpTo(SetupTemplateRows, MaxSetupRows) }
                      \cup {NoTemplate},
                  SetupArtifacts, "load")

\* A run of the submission driver's main, from process_csv, with the processed
\* CSV and the artifact on disk or not
InitSetupDriver ==
    /\ csv_exists \in BOOLEAN
    /\ csv_file \in IF csv_exists THEN SeqsUpTo(SetupCsvRows, MaxSetupRows) ELSE {<<>>}
    /\ \E dry_run \in BOOLEAN : Launched(dry_run)
    /\ tracker = [calls |-> 0, created |-> 0]
    /\ all_rows = <<>>
    /\ project_rows = <<>>
    /\ epic_rows = <<>>
    /\ other_rows = <<>>
    /\ created_count = 0
    /\ failed_count = 0
    /\ pc = "read"
    /\ idx = 1
    /\ submitted = <<>>
    /\ summary = <<>>
    /\ creator_config = <<>>
    /\ creator_exit_code = 0
    /\ config_file \in SetupArtifacts
    /\ ProcessorIdle
    /\ DownloadIdle

InitSetup == InitSetupProcessor \/ InitSetupDriver

NextSetup ==
    \/ LoadConfig
    \/ SubstituteRow
    \/ FinishSubstitute
    \/ ReadCsv
    \/ ProcessProjectRow
    \/ EndProjectPhase
    \/ ProcessEpicRow
    \/ EndEpicPhase
    \/ ProcessOtherRow
    \/ PrintSummary

\* Either stage run with its files present, missing or malformed
SpecSetup == InitSetup /\ [][NextSetup]_vars

\* The command lines of ticket_creator: the script, then up to MaxArgs
\* arguments
CommandLines ==
    { <<ScriptName>> \o args :
        args \in SeqsUpTo({"--dry-run", "--pretend", "secret", ""}, MaxArgs) }

\* ticket_creator before main runs: any command line, JIRA_API_TOKEN unset,
\* empty or set, a .env file with or without it
InitMain ==
    /\ csv_file \in SeqsUpTo(SetupCsvRows, MaxSetupRows)
    /\ creator = NoCreator
    /\ argv \in CommandLines
    /\ environ \in {None, "", "token"}
    /\ dotenv \in {None, "filetoken"}
    /\ tracker = [calls |-> 0, created |-> 0]
    /\ all_rows = <<>>
    /\ project_rows = <<>>
    /\ epic_rows = <<>>
    /\ other_rows = <<>>
    /\ created_count = 0
    /\ failed_count = 0
    /\ pc = "main"
    /\ idx = 1
    /\ submitted = <<>>
    /\ summary = <<>>
    /\ csv_exists = TRUE
    /\ creator_config = <<>>
    /\ creator_exit_code = 0
    /\ config_file = NoFile
    /\ ProcessorIdle
    /\ DownloadIdle

NextMain ==
    \/ Main
    \/ ReadCsv
    \/ ProcessProjectRow
    \/ EndProjectPhase
    \/ ProcessEpicRow
    \/ EndEpicPhase
    \/ ProcessOtherRow
    \/ PrintSummary

\* ticket_creator from the start of main, over every command line of up to
\* MaxArgs arguments
SpecMain == InitMain /\ [][NextMain]_vars

\* Sheet URLs: with the id in the path, with and without a gid, with the id in
\* the query, with a gid only, without any id
SheetUrls ==
    { "https://docs.google.com/spreadsheets/d/aB-1_x/edit#gid=7",
      "https://docs.google.com/spreadsheets/d/aB-1_x/edit",
      "https://drive.google.com/open?id=aB-1_x&gid=31",
      "https://example.com/sheet?gid=5",
      "https://example.com/sheet" }

\* What the web may answer: no answer, or a status with an empty body, a CSV
\* or bytes that are not UTF-8
WebAnswers ==
    { Answer(TRUE, 0, "", TRUE) }
    \cup { Answer(FALSE, status, body[1], body[2]) :
             status \in {200, 401, 404},
             body \in { <<"", TRUE>>, <<"Milestone,Issue Type", TRUE>>, <<"<e9>", FALSE>> } }

\* A call of file_manager.download_csv_from_google_sheets, or a run of the
\* handler's own main, with any sheet URL, force or not, the handler importable or not, the destination writable or
\* not and any pair of answers of the web
InitDownload ==
    /\ sheets_url \in SheetUrls
    /\ force \in BOOLEAN
    /\ web \in [importable : BOOLEAN, writable : BOOLEAN,
                session_get : WebAnswers, requests_get : WebAnswers]
    /\ dest_file = NoDownload
    /\ fetched = None
    /\ success = FALSE
    /\ download_pc \in {"call", "main"}
    /\ config_file = NoFile
    /\ DriverIdle
    /\ ProcessorIdle

NextDownload ==
    \/ DownloadCsv
    \/ HandlerMain

\* The download of the template over every such call
SpecDownload == InitDownload /\ [][NextDownload]_vars

----------------------------------------------------------------------------
(* Properties of the submission driver *)

\* Every row a batch may hold
Rows == Catalogue \cup EpicCatalogue \cup LoadCatalogue

\* The trimmed cells of each row
Cells == [row \in Rows |-> [k \in DOMAIN row |-> strip(row[k])]]

Cell(row, k) == Cells[row][k]

\* A row that create_issue_from_row does not skip
IsTicket(row) == Cell(row, "Summary") # "" /\ Cell(row, "Issue Type") # ""

\* The phase of each row: 1 project, 2 epic, 3 the rest, by the trimmed
\* lower-cased Issue Type
Ranks ==
    [row \in Rows |->
        LET t == lower(strip(row["Issue Type"]))
        IN  IF t = "project" THEN 1 ELSE IF t = "epic" THEN 2 ELSE 3]

Rank(row) == Ranks[row]

SymbolicEpics ==
    <<"<resource_alocation_epic>", "<conception_epic>", "<initiation_epic>",
      "<enablement_epic>", "<uat_closure_epic>">>

\* The rule table of section 4.5: keyword sets in priority order
Keywords ==
    << {"resource allocation", "m00"}, {"conception", "m01"}, {"initiation", "m02"},
       {"enablement", "m03"}, {"uat", "closure", "m04"} >>

Matches(name, i) == \E w \in Keywords[i] : In(w, lower(name))

\* The placeholder an epic name classifies to (first matching set), or None
ClassifyName(name) ==
    IF \E i \in 1..5 : Matches(name, i)
    THEN SymbolicEpics[CHOOSE i \in 1..5 :
                          Matches(name, i) /\ \A j \in 1..(i - 1) : ~Matches(name, j)]
    ELSE None

Classes == [name \in { Cell(row, "Epic Name") : row \in Rows } |-> ClassifyName(name)]

Classify(name) == Classes[name]

IsSymbolicEpic(link) == \E i \in 1..5 : SymbolicEpics[i] = link

\* The creator as the i-th call left it
After(i) == IF i < Len(submitted) THEN submitted[i + 1].before ELSE creator

\* The loaded row all_rows[k] was handed to create_issue_from_row before the
\* j-th call
SubmittedBefore(k, j) ==
    \E i \in 1..(j - 1) : submitted[i].row_num = all_rows[k].row_num

\* C1: rows are submitted in three fully drained phases (project rows, then epic
\* rows, then the rest, by trimmed lower-cased Issue Type), each phase in row order:
\* calls are ordered by (phase, row number), and when a row is submitted every
\* loaded row of an earlier phase, and every earlier row of its phase, already was.
C1_ThreePhases ==
    LET rank   == [j \in 1..Len(submitted) |-> Rank(submitted[j].row)]
        loaded == [k \in 1..Len(all_rows) |-> Rank(all_rows[k].row)]
    IN  \A j \in 1..Len(submitted) :
            /\ \A i \in 1..(j - 1) :
                  \/ rank[i] < rank[j]
                  \/ rank[i] = rank[j] /\ submitted[i].row_num < submitted[j].row_num
            /\ \A k \in 1..Len(all_rows) :
                  ( \/ loaded[k] < rank[j]
                    \/ loaded[k] = rank[j] /\ all_rows[k].row_num < submitted[j].row_num )
                  => SubmittedBefore(k, j)

C1_Witness ==
    /\ pc = "done"
    /\ Len(submitted) = 3
    /\ Rank(csv_file[1]) = 3 /\ Rank(csv_file[2]) = 2 /\ Rank(csv_file[3]) = 1
    /\ <<submitted[1].row_num, submitted[2].row_num, submitted[3].row_num>> = <<4, 3, 2>>
    /\ Cell(csv_file[2], "Issue Type") # RowGet(csv_file[2], "Issue Type", "")

\* The j-th call's row references placeholder T, which the loaded row k (an epic
\* row) classifies to
References(j, k) ==
    /\ IsSymbolicEpic(Cell(submitted[j].row, "Epic Link"))
    /\ Rank(all_rows[k].row) = 2
    /\ Classify(Cell(all_rows[k].row, "Epic Name")) = Cell(submitted[j].row, "Epic Link")

\* C2 as stated: every row referencing a symbolic epic placeholder, whatever its
\* own Issue Type, is submitted after every epic row classifying to that placeholder.
C2_AnyRowAfterItsEpic ==
    \A j \in 1..Len(submitted) : \A k \in 1..Len(all_rows) :
        References(j, k) => SubmittedBefore(k, j)

\* C2 (amended): every row of the remainder phase (Issue Type neither project nor
\* epic) referencing a symbolic epic placeholder T is submitted after every epic row
\* classifying to T, and if such an epic was created its payload's Epic Link is the
\* key of a created epic classifying to T.
C2_RemainderRowAfterItsEpic ==
    \A j \in 1..Len(submitted) : \A k \in 1..Len(all_rows) :
        (Rank(submitted[j].row) = 3 /\ References(j, k)) =>
            /\ SubmittedBefore(k, j)
            /\ \A i \in 1..(j - 1) :
                  ( /\ submitted[i].row_num = all_rows[k].row_num
                    /\ ResultOk(submitted[i].result)
                    /\ submitted[j].called )
                  => /\ EpicLinkField \in DOMAIN submitted[j].fields
                     /\ \E m \in 1..(j - 1) :
                           /\ ResultOk(submitted[m].result)
                           /\ Rank(submitted[m].row) = 2
                           /\ Classify(Cell(submitted[m].row, "Epic Name"))
                                 = Cell(submitted[j].row, "Epic Link")
                           /\ submitted[j].fields[EpicLinkField] = submitted[m].result["key"]

C2_Witness ==
    /\ ~creator.dry_run
    /\ Len(submitted) = 2
    /\ submitted[1].row_num > submitted[2].row_num
    /\ ResultOk(submitted[1].result)
    /\ Rank(submitted[2].row) = 3
    /\ Cell(submitted[2].row, "Epic Link") = "<resource_alocation_epic>"
    /\ Classify(Cell(submitted[1].row, "Epic Name")) = "<resource_alocation_epic>"
    /\ submitted[2].fields[EpicLinkField] = submitted[1].result["key"]

IsToken(link) == startswith(link, "<") /\ endswith(link, ">")

\* The j-th call found its row's Epic Link to be a symbolic token with no binding
UnresolvedEpicLink(j) ==
    /\ IsTicket(submitted[j].row)
    /\ IsToken(Cell(submitted[j].row, "Epic Link"))
    /\ ~Truthy(Get(submitted[j].before.epic_placeholders,
                   Cell(submitted[j].row, "Epic Link")))

\* C3: a ticket row whose Epic Link is a symbolic token without a binding when the
\* row is submitted still reaches the creation call, with no Epic Link field in the
\* payload, and is counted as failed only if the tracker rejects the call.
C3_UnresolvedLinkDropped ==
    \A j \in 1..Len(submitted) :
        UnresolvedEpicLink(j) =>
            /\ submitted[j].called
            /\ EpicLinkField \notin DOMAIN submitted[j].fields
            /\ ResultOk(submitted[j].result) = ~submitted[j].rejected

C3_Witness ==
    \E j \in 1..Len(submitted) :
        /\ UnresolvedEpicLink(j)
        /\ Cell(submitted[j].row, "Epic Link") = "<conception_epic>"
        /\ ~creator.dry_run
        /\ ResultOk(submitted[j].result)
        /\ created_count = Len(submitted)

Successes == { i \in 1..Len(submitted) : ResultOk(submitted[i].result) }

\* C4: a rejected creation call does not stop the run: the counters always count the
\* successful and the unsuccessful calls so far, a rejected row is one of the
\* latter, and when the run ends every loaded row has been submitted and the summary
\* reports those counts.
C4_FailuresDoNotHalt ==
    /\ created_count = Cardinality(Successes)
    /\ failed_count = Len(submitted) - Cardinality(Successes)
    /\ \A i \in 1..Len(submitted) : submitted[i].rejected => i \notin Successes
    /\ pc = "done" =>
          /\ Len(submitted) = Len(all_rows)
          /\ \A k \in 1..Len(all_rows) : SubmittedBefore(k, Len(submitted) + 1)
          /\ DOMAIN summary # {}
          /\ summary["created"] = Cardinality(Successes)
          /\ summary["failed"] = Len(submitted) - Cardinality(Successes)

C4_Witness ==
    /\ pc = "done"
    /\ Len(submitted) = 3
    /\ submitted[1].phase = "other"
    /\ submitted[2].rejected
    /\ ResultOk(submitted[1].result) /\ ResultOk(submitted[3].result)
    /\ summary["created"] = 2 /\ summary["failed"] = 1

\* The successful project-phase calls among the first n calls
ProjectSuccesses(n) ==
    { i \in 1..n : submitted[i].phase = "project" /\ Rank(submitted[i].row) = 1
                   /\ ResultOk(submitted[i].result) }

Least(S) == CHOOSE i \in S : \A j \in S : i <= j

\* C5: parent_project_key is None until the first project row whose creation
\* succeeds, is that issue's key from then on, and is never changed afterwards:
\* after every call it is the key of the first successful project call so far.
C5_ParentKeySetOnce ==
    /\ \A j \in 1..Len(submitted) :
          /\ submitted[j].before.parent_project_key =
                IF ProjectSuccesses(j - 1) = {} THEN None
                ELSE submitted[Least(ProjectSuccesses(j - 1))].result["key"]
    /\ creator.parent_project_key =
          IF ProjectSuccesses(Len(submitted)) = {} THEN None
          ELSE submitted[Least(ProjectSuccesses(Len(submitted)))].result["key"]

C5_Witness ==
    /\ pc = "done"
    /\ Len(submitted) = 3
    /\ \A i \in 1..3 : submitted[i].phase = "project"
    /\ submitted[1].rejected
    /\ ResultOk(submitted[2].result) /\ ResultOk(submitted[3].result)
    /\ submitted[2].before.parent_project_key = None
    /\ creator.parent_project_key = submitted[2].result["key"]
    /\ creator.parent_project_key # submitted[3].result["key"]

\* C6: a ticket row whose Parent Link is '<parent_link>' reaches the creation call,
\* with Parent Link equal to parent_project_key if that is set when the row is
\* submitted and with no Parent Link field otherwise.
C6_ParentLinkResolved ==
    \A j \in 1..Len(submitted) :
        (IsTicket(submitted[j].row) /\ Cell(submitted[j].row, "Parent Link") = "<parent_link>")
        => /\ submitted[j].called
           /\ IF Truthy(submitted[j].before.parent_project_key)
              THEN /\ ParentLinkField \in DOMAIN submitted[j].fields
                   /\ submitted[j].fields[ParentLinkField]
                         = submitted[j].before.parent_project_key
              ELSE ParentLinkField \notin DOMAIN submitted[j].fields

C6_Witness ==
    /\ Len(submitted) = 3
    /\ \A j \in 1..3 : Cell(submitted[j].row, "Parent Link") = "<parent_link>"
    /\ ResultOk(submitted[1].result)
    /\ submitted[1].called
    /\ ParentLinkField \notin DOMAIN submitted[1].fields
    /\ submitted[3].phase = "other"
    /\ \A j \in 2..3 :
          /\ ParentLinkField \in DOMAIN submitted[j].fields
          /\ submitted[j].fields[ParentLinkField] = submitted[1].result["key"]

\* C7: a successful creation of an epic named N binds exactly the placeholder of the
\* first keyword set (in the order resource allocation/m00, conception/m01,
\* initiation/m02, enablement/m03, uat/closure/m04) that has a keyword occurring in
\* N case-insensitively, to the new key, and changes no binding if no set matches.
C7_FirstMatchingSetWins ==
    \A i \in 1..Len(submitted) :
        LET name == Cell(submitted[i].row, "Epic Name")
            T    == Classify(name)
            old  == submitted[i].before.epic_placeholders
        IN  (ResultOk(submitted[i].result) /\ Rank(submitted[i].row) = 2 /\ name # "")
            => After(i).epic_placeholders =
                  IF T = None THEN old ELSE Put(old, T, submitted[i].result["key"])

C7_Witness ==
    /\ ~creator.dry_run
    /\ Len(submitted) = 2
    /\ Cell(submitted[1].row, "Epic Name") = "UAT Initiation"
    /\ Cell(submitted[2].row, "Epic Name") = "Misc"
    /\ ResultOk(submitted[1].result) /\ ResultOk(submitted[2].result)
    /\ DOMAIN creator.epic_placeholders = {"<initiation_epic>"}
    /\ creator.epic_placeholders["<initiation_epic>"] = submitted[1].result["key"]

\* The calls that a run in the given mode makes for the rows of calls i, i+1, ...
\* of this run, in the same order, when every creation succeeds
RECURSIVE Replay(_, _, _)
Replay(c, t, i) ==
    IF i > Len(submitted) THEN <<>>
    ELSE LET e   == [row_num |-> submitted[i].row_num, row |-> submitted[i].row]
             out == RowStep(c, t, e, submitted[i].phase, TRUE)
         IN  <<[before |-> c, after |-> out.creator, called |-> out.called,
                fields |-> out.fields, result |-> out.result]>>
             \o Replay(out.creator, out.tracker, i + 1)

\* This run's calls, in the same shape
Played ==
    [i \in 1..Len(submitted) |->
        [before |-> submitted[i].before, after |-> After(i),
         called |-> submitted[i].called, fields |-> submitted[i].fields,
         result |-> submitted[i].result]]

\* A value as the run sees it: the call that issued it if it is an issued key,
\* otherwise the value itself
Origin(log, v) ==
    IF \E i \in 1..Len(log) : ResultOk(log[i].result) /\ log[i].result["key"] = v
    THEN <<CHOOSE i \in 1..Len(log) :
             ResultOk(log[i].result) /\ log[i].result["key"] = v, "">>
    ELSE <<0, v>>

SameDict(logA, a, logB, b) ==
    /\ DOMAIN a = DOMAIN b
    /\ \A k \in DOMAIN a : Origin(logA, a[k]) = Origin(logB, b[k])

SameTable(logA, a, logB, b) ==
    /\ SameDict(logA, a.created_issues, logB, b.created_issues)
    /\ SameDict(logA, a.epic_placeholders, logB, b.epic_placeholders)
    /\ Origin(logA, a.parent_project_key) = Origin(logB, b.parent_project_key)

\* C8: a dry run and a live run whose every payload is accepted, over the same
\* rows, agree call by call: the same epic names recorded, the same placeholders
\* bound and the same parent key set, each to the key issued by the same call, and
\* the same fields in each payload with links resolved to keys of the same calls.
\* The calls are compared when the run has ended: the calls of an unfinished run
\* are the first calls of the run that continues it with every payload accepted.
C8_DryRunMirrorsLiveRun ==
    (pc = "done" /\ \A i \in 1..Len(submitted) : ~submitted[i].rejected) =>
        LET twin == Replay(Construct(~creator.dry_run), [calls |-> 0, created |-> 0], 1)
            mine == Played
        IN  \A i \in 1..Len(submitted) :
                /\ SameTable(mine, mine[i].before, twin, twin[i].before)
                /\ SameTable(mine, mine[i].after, twin, twin[i].after)
                /\ mine[i].called = twin[i].called
                /\ ResultOk(mine[i].result) = ResultOk(twin[i].result)
                /\ SameDict(mine, mine[i].fields, twin, twin[i].fields)

C8_Witness ==
    /\ ~creator.dry_run
    /\ pc = "done"
    /\ Len(submitted) = 3
    /\ created_count = 3
    /\ submitted[1].phase = "project"
    /\ Cell(submitted[3].row, "Parent Link") = "<parent_link>"
    /\ Cell(submitted[3].row, "Epic Link") = "<resource_alocation_epic>"
    /\ {ParentLinkField, EpicLinkField} \subseteq DOMAIN submitted[3].fields
    /\ submitted[3].fields[ParentLinkField] = submitted[1].result["key"]
    /\ submitted[3].fields[EpicLinkField] = submitted[2].result["key"]

\* C9: a dry run never contacts the tracker: no client is constructed and the
\* tracker receives no creation call.
C9_DryRunNeverContactsTracker ==
    creator.dry_run => /\ creator.jira = None
                       /\ tracker.calls = 0
                       /\ tracker.created = 0

C9_Witness ==
    /\ creator.dry_run
    /\ pc = "done"
    /\ created_count = 3
    /\ creator.dry_run_counter = 3

\* The batch is project rows, one epic row classifying to the resource-allocation
\* placeholder, and generated resource-allocation rows, all of them tickets
ScenarioBatch ==
    /\ \A i \in 1..Len(csv_file) :
          /\ IsTicket(csv_file[i])
          /\ \/ Rank(csv_file[i]) = 1
             \/ /\ Rank(csv_file[i]) = 2
                /\ Classify(Cell(csv_file[i], "Epic Name")) = "<resource_alocation_epic>"
             \/ csv_file[i] \in GeneratedRaRows
    /\ Cardinality({ i \in 1..Len(csv_file) : Rank(csv_file[i]) = 2 }) = 1

\* C10: a dry run over such a batch counts every row as created and none as failed,
\* and each resource-allocation row's payload carries the epic's simulated key as
\* Epic Link.
C10_DryRunScenario ==
    (creator.dry_run /\ pc = "done" /\ ScenarioBatch) =>
        /\ summary["created"] = Len(csv_file)
        /\ summary["failed"] = 0
        /\ summary["dry_run"]
        /\ \A j \in 1..Len(submitted) :
              submitted[j].row \in GeneratedRaRows =>
                  /\ EpicLinkField \in DOMAIN submitted[j].fields
                  /\ submitted[j].fields[EpicLinkField] # "<resource_alocation_epic>"
                  /\ \E m \in 1..Len(submitted) :
                        /\ Rank(submitted[m].row) = 2
                        /\ ResultOk(submitted[m].result)
                        /\ submitted[j].fields[EpicLinkField] = submitted[m].result["key"]

C10_Witness ==
    /\ creator.dry_run
    /\ pc = "done"
    /\ ScenarioBatch
    /\ Len(csv_file) = 3
    /\ Rank(csv_file[1]) = 1
    /\ Cell(csv_file[2], "Epic Name") = "M00 Resource Allocation"
    /\ csv_file[3] \in GeneratedRaRows
    /\ summary["created"] = 3 /\ summary["failed"] = 0
    /\ submitted[3].fields[EpicLinkField] = "DRY-0002"
    /\ submitted[3].fields["summary"] = "ABCM00: RA - Lead - Jane"

----------------------------------------------------------------------------
(* Rows that are not tickets *)

\* The created and failed counts as the i-th call left them
CountsAfter(i) ==
    IF i < Len(submitted)
    THEN <<submitted[i + 1].created, submitted[i + 1].failed>>
    ELSE <<created_count, failed_count>>

\* C11: a loaded row with empty Summary or empty Issue Type is skipped silently:
\* no creation call (live or simulated) is made for it, it consumes no simulated
\* key, and it changes neither the created count nor the failed count.
C11_EmptyRowSkippedSilently ==
    \A i \in 1..Len(submitted) :
        ~IsTicket(submitted[i].row) =>
            /\ ~submitted[i].called
            /\ After(i).dry_run_counter = submitted[i].before.dry_run_counter
            /\ CountsAfter(i) = <<submitted[i].created, submitted[i].failed>>

\* The row is a section-marker row: its trimmed Milestone cell is a marker
IsMarkerRow(row) == Cell(row, "Milestone") \in SectionMarkers

\* The file row numbered row_num (the header is row 1) is a marker row or
\* follows one, that is, it lies inside a configuration section
InConfigSection(row_num) ==
    \E j \in 1..(row_num - 1) : j <= Len(csv_file) /\ IsMarkerRow(csv_file[j])

----------------------------------------------------------------------------
(* Properties of the configuration extractor *)

\* The trimmed cell of the column called name in a scanned row
Scanned(i, name) == strip(Column(input_file.rows[1], scanned[i].row, name, ""))

\* The i-th scanned row is a data row of the section: the section was open
\* when the row was read and the row is neither a marker nor a header row
DataRowOf(i, section) ==
    /\ scanned[i].before = section
    /\ scanned[i].after = section
    /\ FirstCol(scanned[i].row) \notin SectionMarkers \cup HeaderWords \cup {None}

\* The i-th scanned row is a General Configuration row that gives the
\* placeholder token K a value
Defines(i, K) ==
    /\ DataRowOf(i, "general")
    /\ Scanned(i, "Milestone") = K
    /\ Scanned(i, "Issue Type") # ""

IsEpicPlaceholder(K) == \E i \in 1..Len(EpicPlaceholders) : EpicPlaceholders[i] = K

\* C16: after extraction, every General Configuration row whose Milestone cell
\* is a placeholder token K other than the symbolic epic and parent tokens and
\* whose Issue Type cell is a non-empty value V has given replacements[K] == V
\* (the last such row, when K is given twice), and a token that only rows with an
\* empty value name has no entry.
C16_GeneralRowDefinesEntry ==
    stage = "save" =>
        \A i \in 1..Len(scanned) :
            LET K == Scanned(i, "Milestone")
                V == Scanned(i, "Issue Type")
                replacements == extracted_config["replacements"]
            IN  ( /\ DataRowOf(i, "general")
                  /\ IsToken(K)
                  /\ ~IsEpicPlaceholder(K) )
                => IF V # ""
                   THEN (\A j \in (i + 1)..Len(scanned) : ~Defines(j, K))
                            => ItemsGet(replacements, K, None) = V
                   ELSE (\A j \in 1..Len(scanned) : ~Defines(j, K))
                            => ItemsGet(replacements, K, None) = None

\* The team member the i-th scanned row spells out
MemberOf(i) ==
    [team  |-> Scanned(i, "Milestone"), role |-> Scanned(i, "Issue Type"),
     name  |-> Scanned(i, "Summary"),   email |-> Scanned(i, "Description")]

\* Team, role and name are all given and none is an unfilled '<...>' cell
Qualifies(i) ==
    LET m == MemberOf(i)
    IN  /\ m.team # "" /\ m.role # "" /\ m.name # ""
        /\ ~startswith(m.team, "<") /\ ~startswith(m.role, "<")
        /\ ~startswith(m.name, "<")

\* The scanned rows that belong on the roster of the section, in row order
RosterRows(section) ==
    SelectSeq([i \in 1..Len(scanned) |-> i],
              LAMBDA i : DataRowOf(i, section) /\ Qualifies(i))

\* The roster the extractor has built so far under key
RosterOf(key) == IF key \in DOMAIN extracted_config THEN extracted_config[key] ELSE <<>>

RosterIs(key, section) ==
    LET rows == RosterRows(section)
    IN  /\ RosterOf(key) = [k \in 1..Len(rows) |-> MemberOf(rows[k])]
        /\ key \in DOMAIN extracted_config <=> rows # <<>>

\* C17: in the Resource Allocation Tickets (resp. Conception Tickets) section a
\* row appends exactly one member {team, role, name, email} to that section's
\* roster iff its team, role and name cells are all non-empty and none starts
\* with '<'; marker and header rows append nothing; the roster lists the members
\* in row order.
C17_RosterFromSectionRows ==
    /\ RosterIs("resource_allocation_teams", "resource_allocation")
    /\ RosterIs("conception_teams", "conception")

\* Two members were taken in row order, the second without an email
C17_Witness ==
    /\ stage = "save"
    /\ Len(RosterOf("resource_allocation_teams")) = 2
    /\ RosterOf("resource_allocation_teams")[1].name = "Jane"
    /\ RosterOf("resource_allocation_teams")[2].name = "Bob"
    /\ RosterOf("resource_allocation_teams")[2].email = ""

----------------------------------------------------------------------------
(* Properties of the substitution engine *)

\* The section the extractor's rule (ExtractLine) has open once it has read
\* line n of the template; line 1 is the header DictReader consumes
RECURSIVE SectionAtLine(_)
SectionAtLine(n) ==
    IF n < 2 THEN None
    ELSE ExtractLine(SectionAtLine(n - 1), EmptyConfig,
                     input_file.rows[1], input_file.rows[n]).section

\* The i-th row the engine read went to the output as it was read
WrittenVerbatim(i) ==
    /\ ~emitted[i].dropped
    /\ Head(emitted[i].written) = emitted[i].row

\* C13: the substitution engine never rewrites a row inside a configuration
\* section: every row the extractor's section rule places inside a section,
\* from the marker row onward, is written to the output with every cell
\* identical to the input, whatever placeholder keys its cells contain.
C13_SectionRowsWrittenVerbatim ==
    \A i \in 1..Len(emitted) :
        SectionAtLine(emitted[i].line) # None => WrittenVerbatim(i)

\* Some cell of the row holds both tokens of a template pair
HasTemplatePair(row) ==
    \E k \in 1..Len(row) :
        \/ In("<ra_role>", row[k]) /\ In("<ra_name>", row[k])
        \/ In("<conception_role>", row[k]) /\ In("<conception_name>", row[k])

\* C14: a row outside a configuration section that contains both tokens of a
\* template pair in one cell ('<ra_role>' and '<ra_name>', or
\* '<conception_role>' and '<conception_name>') is dropped: it does not appear
\* in the output in any form and triggers no generated-row insertion.
C14_TemplatePairRowDropped ==
    \A i \in 1..Len(emitted) :
        (~emitted[i].in_section /\ HasTemplatePair(emitted[i].row))
            => /\ emitted[i].dropped
               /\ emitted[i].written = <<>>
               /\ ~emitted[i].ra_fired
               /\ ~emitted[i].conception_fired

\* The replacement map the engine runs with
Replacements == DictGet(loaded_config, "replacements", <<>>)

\* No cell of the row holds a key of the replacement map
NoKnownKey(row) ==
    \A c \in 1..Len(row) : \A k \in 1..Len(Replacements) :
        ~In(Replacements[k][1], row[c])

\* C15: substitution is the identity on a row that contains no known
\* placeholder key: every cell of the output row equals the input cell,
\* including cells holding '<...>' tokens that are not keys of the replacement
\* map, which are left intact and never reported as an error.
C15_IdentityWithoutKnownKey ==
    \A i \in 1..Len(emitted) :
        (~emitted[i].dropped /\ NoKnownKey(emitted[i].row))
            => /\ Head(emitted[i].written) = emitted[i].row
               /\ (stage = "exit" /\ i = Len(emitted)) => Len(emitted[i].row) < 3

\* A ticket row with a token no key matches went through substitution, outside
\* any configuration section, and the run ended normally
C15_Witness ==
    /\ stage = "done"
    /\ Replacements # <<>>
    /\ \E i \in 1..Len(emitted) :
          /\ ~emitted[i].in_section
          /\ NoKnownKey(emitted[i].row)
          /\ \E c \in 1..Len(emitted[i].row) : In("<sponsor>", emitted[i].row[c])
          /\ Head(emitted[i].written) = emitted[i].row

\* The cell of a generated row under the column called name
GeneratedCell(ticket, name) == Column(Header, ticket, name, None)

\* The roster of the loaded config under key; an absent roster has no entries
LoadedRoster(key) == DictGet(loaded_config, key, <<>>)

\* C18: the generator produces exactly one row per roster entry, in roster
\* order: for a resource-allocation entry {role, name, email} with
\* replacements['<project_key>'] = P the row has Issue Type 'Tracker', Summary
\* P 'M00: RA - ' role ' - ' name, Assignee = email, Epic Link
\* '<resource_alocation_epic>' and Parent Link '<parent_link>'; each conception
\* entry yields one 'Story' row with Epic Link '<conception_epic>' and Parent
\* Link '<parent_link>'; an absent roster yields no rows.
C18_OneRowPerRosterEntry ==
    LET ra         == generate_ra_tickets(loaded_config)
        conception == generate_conception_review_tickets(loaded_config)
        ra_teams   == LoadedRoster("resource_allocation_teams")
        con_teams  == LoadedRoster("conception_teams")
        P          == ItemsGet(Replacements, "<project_key>", None)
    IN  /\ Len(ra) = Len(ra_teams)
        /\ Len(conception) = Len(con_teams)
        /\ P # None =>
             \A k \in 1..Len(ra) :
                /\ GeneratedCell(ra[k], "Issue Type") = "Tracker"
                /\ GeneratedCell(ra[k], "Summary")
                      = P \o "M00: RA - " \o ra_teams[k]["role"] \o " - " \o ra_teams[k]["name"]
                /\ GeneratedCell(ra[k], "Assignee") = ra_teams[k]["email"]
                /\ GeneratedCell(ra[k], "Epic Link") = "<resource_alocation_epic>"
                /\ GeneratedCell(ra[k], "Parent Link") = "<parent_link>"
        /\ \A k \in 1..Len(conception) :
                /\ GeneratedCell(conception[k], "Issue Type") = "Story"
                /\ In(con_teams[k]["role"] \o " - " \o con_teams[k]["name"],
                      GeneratedCell(conception[k], "Summary"))
                /\ GeneratedCell(conception[k], "Epic Link") = "<conception_epic>"
                /\ GeneratedCell(conception[k], "Parent Link") = "<parent_link>"
        /\ \A i \in 1..Len(emitted) :
                ~emitted[i].dropped =>
                    Len(emitted[i].written)
                        = 1 + (IF emitted[i].ra_fired THEN Len(ra_teams) ELSE 0)
                            + (IF emitted[i].conception_fired THEN Len(con_teams) ELSE 0)

\* The engine wrote the generated rows of a roster of two after the closing
\* epic, Jane's before Bob's, and the review row of the conception roster
C18_Witness ==
    /\ stage = "done"
    /\ \E i \in 1..Len(emitted) :
          /\ emitted[i].ra_fired
          /\ Len(emitted[i].written) = 3
          /\ GeneratedCell(emitted[i].written[2], "Summary") = "ABCM00: RA - Lead - Jane"
          /\ GeneratedCell(emitted[i].written[2], "Assignee") = "j@x.com"
          /\ GeneratedCell(emitted[i].written[3], "Summary") = "ABCM00: RA - Dev - Bob"
          /\ GeneratedCell(emitted[i].written[3], "Epic Link") = "<resource_alocation_epic>"
    /\ \E i \in 1..Len(emitted) :
          /\ emitted[i].conception_fired
          /\ GeneratedCell(emitted[i].written[2], "Epic Link") = "<conception_epic>"

----------------------------------------------------------------------------
(* Properties of the configuration artifact *)

\* The configs agree on the entry under key: both lack it or both hold the
\* same value
SameEntry(c, d, key) ==
    /\ key \in DOMAIN c <=> key \in DOMAIN d
    /\ key \in DOMAIN c => c[key] = d[key]

\* C19: the persisted configuration artifact round-trips losslessly: for every
\* configuration c produced by extraction, load_config after save_config(c)
\* returns a configuration whose replacements, jira_settings.target_project,
\* resource_allocation_teams and conception_teams equal those of c (values and
\* order), the only difference being the injected _ai_disclaimer field.
C19_ArtifactRoundTrips ==
    /\ stage = "exit" => ~input_file.exists
    /\ stage = "substitute" =>
          /\ SameEntry(extracted_config, loaded_config, "replacements")
          /\ SameEntry(extracted_config, loaded_config, "jira_settings")
          /\ SameEntry(extracted_config, loaded_config, "resource_allocation_teams")
          /\ SameEntry(extracted_config, loaded_config, "conception_teams")
          /\ "_ai_disclaimer" \notin DOMAIN extracted_config
          /\ DOMAIN loaded_config = DOMAIN extracted_config \cup {"_ai_disclaimer"}
          /\ loaded_config["_ai_disclaimer"] = ConfigDisclaimer

\* An artifact with a quote and a backslash among its values and a roster
\* member was saved and loaded
C19_Witness ==
    /\ stage = "substitute"
    /\ config_file.exists
    /\ ItemsGet(loaded_config["replacements"], "<project_key>", None) = "AB\"C"
    /\ ItemsGet(loaded_config["replacements"], "<project_name>", None) = "a\\b"
    /\ "resource_allocation_teams" \notin DOMAIN loaded_config

----------------------------------------------------------------------------
(* Properties of the setup errors *)

\* The artifact on disk cannot be loaded: it is missing or it is not JSON
ArtifactUnusable == ~config_file.exists \/ config_file = MalformedArtifact

\* C20: a fatal setup error (missing template or processed CSV file, missing
\* processed-config artifact, malformed JSON) aborts the run immediately with a
\* non-zero exit and before any row is substituted or submitted, both in the
\* substitution stage and in the submission stage.
C20_SetupErrorAborts ==
    /\ (stage # "idle" /\ (ArtifactUnusable \/ ~input_file.exists))
          => /\ emitted = <<>>
             /\ stage \in {"load", "exit"}
             /\ stage = "exit" => exit_code # 0
    /\ (pc # "idle" /\ (ArtifactUnusable \/ ~csv_exists))
          => /\ submitted = <<>>
             /\ pc \in {"read", "done"}
             /\ pc = "done" => creator_exit_code # 0

----------------------------------------------------------------------------
(* Properties of the submission driver: summary, dates, links, table *)

\* The final summary is out and reports the counts and the parent key
SummaryEmitted ==
    /\ DOMAIN summary # {}
    /\ summary.created = created_count
    /\ summary.failed = failed_count
    /\ summary.parent = creator.parent_project_key
    /\ summary.dry_run = creator.dry_run

Parses(s, i) == strptime(s, date_formats[i]).ok

\* The text has the form YYYY-MM-DD
IsIsoDate(d) ==
    /\ Len(d) = 10
    /\ SubSeq(d, 5, 5) = "-" /\ SubSeq(d, 8, 8) = "-"
    /\ AllDigits(SubSeq(d, 1, 4)) /\ AllDigits(SubSeq(d, 6, 7))
    /\ AllDigits(SubSeq(d, 9, 10))

\* The date the first pattern that reads the trimmed cell produces
ByFirstPattern(cell) ==
    LET s == strip(cell)
        i == CHOOSE k \in 1..Len(date_formats) :
                 Parses(s, k) /\ \A j \in 1..(k - 1) : ~Parses(s, j)
    IN  strftime(strptime(s, date_formats[i]))

SomePatternParses(cell) == \E k \in 1..Len(date_formats) : Parses(strip(cell), k)

\* The payload's date field is what the first parsing pattern gives for the cell
DateFromFirstPattern(e, column, field) ==
    SomePatternParses(RowGet(e.row, column, "")) =>
        /\ field \in DOMAIN e.fields
        /\ e.fields[field] = ByFirstPattern(RowGet(e.row, column, ""))
        /\ IsIsoDate(e.fields[field])

\* C22: the date a submitted row carries for a Due Date or Target Start cell is
\* the YYYY-MM-DD text produced by the first of the six patterns, in their
\* declared order, that reads the trimmed cell; '4/Sep/25' gives '2025-09-04'
\* and '18/11/25' gives '2025-11-18'.
C22_FirstParsingPatternWins ==
    /\ \A i \in 1..Len(submitted) :
          submitted[i].called =>
              /\ DateFromFirstPattern(submitted[i], "Due Date", DueDateField)
              /\ DateFromFirstPattern(submitted[i], "Target Start", TargetStartField)
    /\ \A i \in 1..Len(submitted) :
          submitted[i].called =>
              /\ RowGet(submitted[i].row, "Due Date", "") = "4/Sep/25"
                    => submitted[i].fields[DueDateField] = "2025-09-04"
              /\ RowGet(submitted[i].row, "Due Date", "") = "18/11/25"
                    => submitted[i].fields[DueDateField] = "2025-11-18"
              /\ RowGet(submitted[i].row, "Due Date", "") = "4/Sep/2025"
                    => submitted[i].fields[DueDateField] = "2025-09-04"

C22_Witness ==
    /\ \E i \in 1..Len(submitted) :
          /\ submitted[i].called
          /\ RowGet(submitted[i].row, "Due Date", "") = " 04/sep/25 "
          /\ submitted[i].fields[DueDateField] = "2025-09-04"
    /\ \E i \in 1..Len(submitted) :
          /\ submitted[i].called
          /\ RowGet(submitted[i].row, "Target Start", "") = "18/11/2025"
          /\ submitted[i].fields[TargetStartField] = "2025-11-18"

\* The cell is empty, blank, or read by none of the patterns
NoDateIn(cell) == ~SomePatternParses(cell)

\* The row went to the tracker gateway without the date field, and failed
\* only if the tracker refused it
SubmittedWithout(e, field) ==
    /\ e.called
    /\ field \notin DOMAIN e.fields
    /\ ResultOk(e.result) <=> ~e.rejected

\* C23: a Due Date or Target Start cell that is empty, blank or matched by no
\* pattern gives no date: the row (with its summary and issue type) is still
\* submitted, the payload has no such date field, and the row fails only when
\* the tracker refuses it.
C23_UnreadableDateOmitted ==
    \A i \in 1..Len(submitted) :
        LET e == submitted[i]
        IN  strip(RowGet(e.row, "Summary", "")) # ""
                /\ strip(RowGet(e.row, "Issue Type", "")) # "" =>
              /\ NoDateIn(RowGet(e.row, "Due Date", ""))
                    => SubmittedWithout(e, DueDateField)
              /\ NoDateIn(RowGet(e.row, "Target Start", ""))
                    => SubmittedWithout(e, TargetStartField)

C23_Witness ==
    /\ \E i \in 1..Len(submitted) :
          /\ RowGet(submitted[i].row, "Due Date", "") = "soon"
          /\ TargetStartField \in DOMAIN submitted[i].fields
          /\ SubmittedWithout(submitted[i], DueDateField)
          /\ ResultOk(submitted[i].result)
    /\ \E i \in 1..Len(submitted) :
          /\ RowGet(submitted[i].row, "Due Date", "") = "  "
          /\ SubmittedWithout(submitted[i], DueDateField)
          /\ SubmittedWithout(submitted[i], TargetStartField)

\* The payload's field, when set, is not a symbolic token
ConcreteLink(e, field) == field \in DOMAIN e.fields => ~IsToken(e.fields[field])

\* C24: no payload handed to the tracker gateway carries a '<...>' token as its
\* Epic Link or Parent Link: each of the two fields is absent or a concrete
\* identifier, whichever token the row's cell held.
C24_NoTokenLinkSubmitted ==
    \A i \in 1..Len(submitted) :
        submitted[i].called =>
            /\ ConcreteLink(submitted[i], EpicLinkField)
            /\ ConcreteLink(submitted[i], ParentLinkField)

\* The Epic Link half of C24 alone
EpicLinkNeverToken ==
    \A i \in 1..Len(submitted) :
        submitted[i].called => ConcreteLink(submitted[i], EpicLinkField)

\* How many entries of the list carry the line number
Times(entries, row_num) ==
    Cardinality({ i \in 1..Len(entries) : entries[i].row_num = row_num })

\* The phases a loaded row is assigned to
PhasesOf(row_num) ==
    Times(project_rows, row_num) + Times(epic_rows, row_num) + Times(other_rows, row_num)

TableOf(c) == <<c.created_issues, c.epic_placeholders, c.parent_project_key>>

\* Every entry of the table before is still in the table after
NothingRemoved(before, after) ==
    /\ DOMAIN before.created_issues \subseteq DOMAIN after.created_issues
    /\ DOMAIN before.epic_placeholders \subseteq DOMAIN after.epic_placeholders
    /\ Truthy(before.parent_project_key) => Truthy(after.parent_project_key)

\* The step submitted one row, and the row was an Epic or a Project created
\* with success
SuccessfulCreationStep ==
    /\ Len(submitted') = Len(submitted) + 1
    /\ ResultOk(submitted'[Len(submitted')].result)
    /\ IssueCategory(submitted'[Len(submitted')].row) \in {"project", "epic"}

TableEmpty(c) ==
    /\ DOMAIN c.created_issues = {}
    /\ DOMAIN c.epic_placeholders = {}
    /\ c.parent_project_key = None

\* C26: the resolution table (created_issues, epic_placeholders,
\* parent_project_key) is empty when a run starts, and a step changes it only by
\* the successful creation of an Epic or Project row: a failed creation and a
\* row of any other type leave it as it was, and no step removes an entry.
C26_TableChangesOnlyOnSuccess ==
    /\ (pc = "read" => TableEmpty(creator))
    /\ [][ /\ TableOf(creator') # TableOf(creator) => SuccessfulCreationStep
           /\ NothingRemoved(creator, creator') ]_vars

C26_Witness ==
    /\ Len(submitted) = 3
    /\ submitted[1].phase = "epic" /\ ResultOk(submitted[1].result)
    /\ TableOf(submitted[2].before) # TableOf(submitted[1].before)
    /\ submitted[2].phase = "epic" /\ submitted[2].rejected
    /\ ~TableEmpty(submitted[3].before)
    /\ TableOf(submitted[3].before) = TableOf(submitted[2].before)
    /\ submitted[3].phase = "other" /\ ResultOk(submitted[3].result)
    /\ TableOf(creator) = TableOf(submitted[3].before)

\* The calls that created an epic with a name
CreatedEpics ==
    { i \in 1..Len(submitted) :
        /\ ResultOk(submitted[i].result)
        /\ IssueCategory(submitted[i].row) = "epic"
        /\ strip(RowGet(submitted[i].row, "Epic Name", "")) # "" }

\* Those among them whose name classifies to the placeholder
CreatedFor(T) ==
    { i \in CreatedEpics :
        ClassifyName(strip(RowGet(submitted[i].row, "Epic Name", ""))) = T }

\* Those among them that carry the name
CreatedNamed(name) ==
    { i \in CreatedEpics : strip(RowGet(submitted[i].row, "Epic Name", "")) = name }

Latest(S) == CHOOSE i \in S : \A j \in S : j <= i

\* C27: once the Epic phase is over, a placeholder to which created epics
\* classify is bound to the key of the one created last, an epic name several
\* created epics share maps to the key of the last of them, and every
\* Remainder-phase row whose Epic Link is that placeholder is submitted with
\* that key as its Epic Link.
C27_LastCreatedEpicWins ==
    pc \in {"other", "done"} =>
        /\ \A k \in 1..Len(SymbolicEpics) :
              LET T == SymbolicEpics[k]
              IN  CreatedFor(T) # {} =>
                    /\ T \in DOMAIN creator.epic_placeholders
                    /\ creator.epic_placeholders[T]
                          = submitted[Latest(CreatedFor(T))].result["key"]
                    /\ \A j \in 1..Len(submitted) :
                          ( /\ submitted[j].phase = "other"
                            /\ submitted[j].called
                            /\ strip(RowGet(submitted[j].row, "Epic Link", "")) = T )
                          => /\ EpicLinkField \in DOMAIN submitted[j].fields
                             /\ submitted[j].fields[EpicLinkField]
                                   = submitted[Latest(CreatedFor(T))].result["key"]
        /\ \A i \in CreatedEpics :
              LET name == strip(RowGet(submitted[i].row, "Epic Name", ""))
              IN  creator.created_issues[name]
                     = submitted[Latest(CreatedNamed(name))].result["key"]

C27_Witness ==
    /\ Len(submitted) = 3
    /\ CreatedFor("<uat_closure_epic>") = {1, 2}
    /\ RowGet(submitted[1].row, "Epic Name", "") # RowGet(submitted[2].row, "Epic Name", "")
    /\ submitted[1].result["key"] # submitted[2].result["key"]
    /\ submitted[3].phase = "other"
    /\ strip(RowGet(submitted[3].row, "Epic Link", "")) = "<uat_closure_epic>"
    /\ EpicLinkField \in DOMAIN submitted[3].fields
    /\ submitted[3].fields[EpicLinkField] = submitted[2].result["key"]
    /\ creator.epic_placeholders["<uat_closure_epic>"] = submitted[2].result["key"]

----------------------------------------------------------------------------
(* Properties of the substitution: passes, epic tokens, order of the output *)

\* One pass over the original text, left to right: where a key begins, its
\* value is put and the reading goes on after the key
RECURSIVE SinglePass(_, _)
SinglePass(s, items) ==
    IF s = "" THEN ""
    ELSE LET hits == { k \in 1..Len(items) :
                         items[k][1] # "" /\ startswith(s, items[k][1]) }
         IN  IF hits = {} THEN SubSeq(s, 1, 1) \o SinglePass(SubSeq(s, 2, Len(s)), items)
             ELSE LET k == Lowest(hits)
                  IN  items[k][2]
                          \o SinglePass(SubSeq(s, Len(items[k][1]) + 1, Len(s)), items)

\* The entries that change text: a key mapped to itself changes none, wherever
\* it stands in the order
Changing(items) == SelectSeq(items, LAMBDA kv : kv[1] # kv[2])

\* The entries in every order
Orderings(items) ==
    { [i \in 1..Len(items) |-> items[p[i]]] :
        p \in { f \in [1..Len(items) -> 1..Len(items)] :
                  \A a, b \in 1..Len(items) : a # b => f[a] # f[b] } }

\* The cells of a processed ticket row are those of the row as read, each
\* after one pass, and the same in every order of the keys
SinglePassCells(e) ==
    \A c \in 1..Len(e.row) :
        /\ e.written[1][c] = SinglePass(e.row[c], Replacements)
        /\ \A order \in Orderings(Changing(Replacements)) :
              SubstituteCell(e.row[c], order) = e.written[1][c]

\* C28: the substitution of a cell is one pass per key over the original text:
\* text a replacement value brings in is not substituted again, even when it
\* holds another key, so the written cell is the same in every order of the
\* keys.
C28_SinglePassOrderFree ==
    \A i \in 1..Len(emitted) :
        (~emitted[i].dropped /\ ~emitted[i].in_section) => SinglePassCells(emitted[i])

\* How often the token occurs in the text
Occurrences(T, s) == (Len(s) - Len(replace(s, T, ""))) \div Len(T)

\* The config maps each of the six tokens to itself
SelfMapped(config) ==
    \A k \in 1..Len(EpicPlaceholders) :
        ItemsGet(DictGet(config, "replacements", <<>>), EpicPlaceholders[k], None)
            = EpicPlaceholders[k]

\* The written row holds each token where, and as often as, the source row does
TokensKept(source, row) ==
    /\ Len(row) = Len(source)
    /\ \A c \in 1..Len(source) : \A k \in 1..Len(EpicPlaceholders) :
          Occurrences(EpicPlaceholders[k], row[c])
              = Occurrences(EpicPlaceholders[k], source[c])

\* The rows the generators gave for the entry, in the order they are written
GeneratedFor(e) ==
    (IF e.ra_fired THEN generate_ra_tickets(loaded_config) ELSE <<>>)
        \o (IF e.conception_fired THEN generate_conception_review_tickets(loaded_config)
            ELSE <<>>)

\* C29: after extraction each of the six tokens <parent_link>,
\* <resource_alocation_epic>, <conception_epic>, <initiation_epic>,
\* <enablement_epic>, <uat_closure_epic> is mapped to itself in replacements,
\* whether the General section names it or not and whatever value it gives, and
\* so it is in the loaded artifact; every occurrence of the tokens in a written
\* ticket row, original or generated, is in the output as it was in the source.
C29_EpicTokensSurvive ==
    /\ stage \in {"save", "load"} => SelfMapped(extracted_config)
    /\ stage \in {"substitute", "done"} =>
          /\ SelfMapped(extracted_config)
          /\ SelfMapped(loaded_config)
          /\ \A i \in 1..Len(emitted) :
                ~emitted[i].dropped =>
                    /\ TokensKept(emitted[i].row, emitted[i].written[1])
                    /\ Len(emitted[i].written) = 1 + Len(GeneratedFor(emitted[i]))
                    /\ \A r \in 1..Len(GeneratedFor(emitted[i])) :
                          TokensKept(GeneratedFor(emitted[i])[r],
                                     emitted[i].written[r + 1])

C29_Witness ==
    /\ stage = "done"
    /\ \E j \in 1..Len(scanned) :
          /\ scanned[j].row[1] = "<uat_closure_epic>" /\ scanned[j].row[2] = "EPIC-9"
          /\ scanned[j].config # scanned[j].config_before
    /\ \E i \in 1..Len(emitted) :
          /\ ~emitted[i].in_section /\ ~emitted[i].dropped
          /\ emitted[i].written[1][3] = "See <initiation_epic> and <initiation_epic>"
          /\ emitted[i].written[1][6] = "<resource_alocation_epic>"
    /\ \E i \in 1..Len(emitted) :
          /\ emitted[i].ra_fired
          /\ Len(emitted[i].written) = 2
          /\ emitted[i].written[2][6] = "<resource_alocation_epic>"
          /\ emitted[i].written[2][10] = "<parent_link>"

\* The i-th row read is a template row: outside a configuration section, with
\* both tokens of a pair in one cell (any cell, or the third when third_only)
TemplateRowAt(i, third_only) ==
    /\ ~emitted[i].in_section
    /\ IF third_only THEN IsUserTemplateRow(FALSE, emitted[i].row)
       ELSE HasTemplatePair(emitted[i].row)

\* The row after which the resource-allocation rows go: Issue Type contains
\* 'Epic' and Summary contains 'UAT / Project Closure'
IsClosureEpic(row) ==
    /\ In("Epic", Column(Header, row, "Issue Type", ""))
    /\ In("UAT / Project Closure", Column(Header, row, "Summary", ""))

\* The row after which the conception-review rows go
IsCharterStory(row) ==
    /\ In("Conception", Column(Header, row, "Milestone", ""))
    /\ In("Story", Column(Header, row, "Issue Type", ""))
    /\ In("Fill in project charter", Column(Header, row, "Summary", ""))

\* The i-th row read is the first row that is written and satisfies Is
FirstWritten(i, Is(_), third_only) ==
    /\ ~TemplateRowAt(i, third_only)
    /\ Is(emitted[i].row)
    /\ \A j \in 1..(i - 1) : TemplateRowAt(j, third_only) \/ ~Is(emitted[j].row)

\* What the output holds for the i-th row read
RowsFor(i, third_only) ==
    IF TemplateRowAt(i, third_only) THEN <<>>
    ELSE << IF emitted[i].in_section THEN emitted[i].row
            ELSE SubstituteCells(emitted[i].row, Replacements) >>
         \o (IF FirstWritten(i, IsClosureEpic, third_only)
             THEN Written(generate_ra_tickets(loaded_config), Replacements)
             ELSE <<>>)
         \o (IF FirstWritten(i, IsCharterStory, third_only)
             THEN Written(generate_conception_review_tickets(loaded_config), Replacements)
             ELSE <<>>)

RECURSIVE OutputUpTo(_, _)
OutputUpTo(n, third_only) ==
    IF n = 0 THEN <<>> ELSE OutputUpTo(n - 1, third_only) \o RowsFor(n, third_only)

\* The output of a finished run, after its comment line, is what the rows
\* read give in input order
OutputInInputOrder(third_only) ==
    stage = "done" =>
        /\ Len(emitted) = Len(input_file.rows)
        /\ \A i \in 1..Len(emitted) : emitted[i].row = input_file.rows[i]
        /\ outfile = <<DisclaimerLine>> \o OutputUpTo(Len(emitted), third_only)

\* C30: the substitution output is the input rows in input order with the
\* template rows removed, plus generated rows at two positions only: the
\* resource-allocation rows, in roster order, right after the row whose Issue
\* Type contains 'Epic' and whose Summary contains 'UAT / Project Closure', and
\* the conception-review rows, in roster order, right after the Conception
\* 'Story' row whose Summary contains 'Fill in project charter'; without such a
\* row the generated rows are not emitted.
C30_OutputInInputOrder == OutputInInputOrder(FALSE)

\* The same with the template rows taken as the engine tests them: the pair in
\* the third cell
OutputInInputOrderThirdCell == OutputInInputOrder(TRUE)

\* The i-th row read was written and satisfies Is, as written
MatchesAt(i, Is(_)) == ~emitted[i].dropped /\ Is(emitted[i].written[1])

\* The rows read after which generated rows of a kind were written
FiredAt(kind) ==
    { i \in 1..Len(emitted) :
        IF kind = "ra" THEN emitted[i].ra_fired ELSE emitted[i].conception_fired }

\* An insertion fired after the first matching row and after no other
FiresAtFirstMatch(kind, Is(_)) ==
    \A i \in 1..Len(emitted) :
        i \in FiredAt(kind)
            <=> (MatchesAt(i, Is) /\ \A j \in 1..(i - 1) : ~MatchesAt(j, Is))

\* The elements of a sequence
Range(seq) == { seq[n] : n \in 1..Len(seq) }

\* How many rows of the output are the given row
CopiesWritten(row) == Cardinality({ n \in 1..Len(outfile) : outfile[n] = row })

\* C31: each insertion point fires at most once per substitution run: however
\* many rows match the resource-allocation trigger (resp. the conception
\* trigger), the generated rows are written once, after the first matching row,
\* and each roster entry yields at most one output row.
C31_InsertionFiresOnce ==
    /\ Cardinality(FiredAt("ra")) <= 1
    /\ Cardinality(FiredAt("conception")) <= 1
    /\ FiresAtFirstMatch("ra", IsClosureEpic)
    /\ FiresAtFirstMatch("conception", IsCharterStory)
    /\ ra_tickets_added <=> FiredAt("ra") # {}
    /\ conception_tickets_added <=> FiredAt("conception") # {}
    /\ stage \in {"done", "exit"} =>
          /\ \A row \in Range(Written(generate_ra_tickets(loaded_config), Replacements)) :
                CopiesWritten(row) <= 1
          /\ \A row \in Range(Written(generate_conception_review_tickets(loaded_config),
                                       Replacements)) :
                CopiesWritten(row) <= 1

C31_Witness ==
    /\ stage = "done"
    /\ Len(emitted) = 4
    /\ MatchesAt(2, IsClosureEpic) /\ MatchesAt(3, IsClosureEpic)
    /\ MatchesAt(4, IsClosureEpic)
    /\ FiredAt("ra") = {2}
    /\ Len(emitted[2].written) = 3
    /\ Len(emitted[3].written) = 1
    /\ Len(outfile) = 7

----------------------------------------------------------------------------
(* Properties of the extractor's section state and of what it collects *)

\* The non-blank cells of a scanned row, trimmed, in column order
ValuesOf(i) ==
    SelectSeq([k \in 1..Len(scanned[i].row) |-> strip(scanned[i].row[k])],
              LAMBDA v : v # "")

\* The section each marker opens
MarkerSection ==
    [m \in SectionMarkers |->
        IF m = "General Configuration" THEN "general"
        ELSE IF m = "Resource Allocation Tickets" THEN "resource_allocation"
        ELSE "conception"]

IsMarkerLine(i) == ValuesOf(i) # <<>> /\ ValuesOf(i)[1] \in SectionMarkers
IsHeaderLine(i) == ValuesOf(i) # <<>> /\ ValuesOf(i)[1] \in {"Team", "Role", "Name", "Email"}
IsBlankLine(i)  == ValuesOf(i) = <<>>

\* The i-th scanned row left the config as it found it
AddsNothing(i) == scanned[i].config = scanned[i].config_before

\* C32: the extractor's section state starts as no-section and changes only on
\* a section-marker row, to that marker's section; a marker row, a header row
\* and a row with no non-empty cell contribute no data and, markers aside, do
\* not change the state; rows seen before any marker add no replacement entry
\* and no team member.
C32_SectionStateAndSkippedRows ==
    /\ scanned = <<>> /\ stage = "extract" => current_section = None
    /\ \A i \in 1..Len(scanned) :
        /\ scanned[i].before = (IF i = 1 THEN None ELSE scanned[i - 1].after)
        /\ IF IsMarkerLine(i)
           THEN scanned[i].after = MarkerSection[ValuesOf(i)[1]]
           ELSE scanned[i].after = scanned[i].before
        /\ (IsMarkerLine(i) \/ IsHeaderLine(i) \/ IsBlankLine(i)) => AddsNothing(i)
        /\ (\A j \in 1..i : ~IsMarkerLine(j)) => AddsNothing(i)
    /\ scanned # <<>> /\ stage = "extract" => current_section = scanned[Len(scanned)].after

\* A scan that met a roster row before any marker, then a marker, the roster
\* header and a roster row: only the last row added a member
C32_Witness ==
    /\ Len(scanned) = 3
    /\ ValuesOf(1) = <<"Core", "Lead", "Jane", "j@x.com">> /\ scanned[1].after = None
    /\ IsMarkerLine(2) /\ scanned[2].after = "conception"
    /\ ValuesOf(3) = <<"Core", "Lead", "Jane", "j@x.com">>
    /\ scanned[3].config # scanned[3].config_before
    /\ AddsNothing(1) /\ AddsNothing(2)

\* The target project and the '<target_project>' replacement of a config
TargetOf(config) == config["jira_settings"].target_project
TargetEntryOf(config) == ItemsGet(config["replacements"], "<target_project>", None)

\* The scanned rows that name a target project
TargetRows == { i \in 1..Len(scanned) : Defines(i, "<target_project>") }

\* C33: a General-section row with Milestone '<target_project>' and non-empty
\* value V sets both jira_settings.target_project and
\* replacements['<target_project>'] to V; while no such row has been read
\* target_project is the configured default and there is no '<target_project>'
\* replacement entry.
C33_TargetProjectRow ==
    /\ \A i \in TargetRows :
        /\ TargetOf(scanned[i].config) = Scanned(i, "Issue Type")
        /\ TargetEntryOf(scanned[i].config) = Scanned(i, "Issue Type")
    /\ stage \in {"extract", "save"} =>
        IF TargetRows = {}
        THEN /\ TargetOf(extracted_config) = DefaultProject
             /\ TargetEntryOf(extracted_config) = None
        ELSE LET last == CHOOSE i \in TargetRows : \A j \in TargetRows : j <= i
             IN  /\ TargetOf(extracted_config) = Scanned(last, "Issue Type")
                 /\ TargetEntryOf(extracted_config) = Scanned(last, "Issue Type")

\* An extraction that read the General Configuration marker, the project key
\* and then the target project TGT, which replaced the default
C33_Witness ==
    /\ stage = "save"
    /\ TargetRows = {3}
    /\ TargetOf(scanned[3].config_before) = DefaultProject
    /\ TargetEntryOf(scanned[3].config_before) = None
    /\ TargetOf(extracted_config) = "TGT"
    /\ TargetEntryOf(extracted_config) = "TGT"
    /\ ItemsGet(extracted_config["replacements"], "<project_key>", None) = "ABC"

\* The indexed placeholder of a roster's i-th member, i a single digit
IndexedKey(prefix, field, i) ==
    "<" \o prefix \o "_" \o field \o "_" \o SubSeq("0123456789", i + 1, i + 1) \o ">"

MemberFields == {"team", "role", "name", "email"}

\* The keys of the replacement map that are indexed placeholders of the prefix
IndexedKeysOf(prefix) ==
    { extracted_config["replacements"][k][1] :
        k \in { j \in 1..Len(extracted_config["replacements"]) :
                  \E field \in MemberFields :
                      startswith(extracted_config["replacements"][j][1],
                                 "<" \o prefix \o "_" \o field \o "_") } }

\* The replacement map has the indexed placeholders of the roster, and only
\* those
IndexedFor(prefix, key) ==
    LET roster == RosterOf(key)
    IN  /\ \A i \in 0..(Len(roster) - 1) : \A field \in MemberFields :
            ItemsGet(extracted_config["replacements"],
                     IndexedKey(prefix, field, i), None) = roster[i + 1][field]
        /\ IndexedKeysOf(prefix) =
              { IndexedKey(prefix, field, i) :
                    field \in MemberFields, i \in 0..(Len(roster) - 1) }

\* C34: after the scan, for every roster of n members and every index i in
\* 0..n-1 the replacement map has '<ra_team_i>', '<ra_role_i>', '<ra_name_i>'
\* and '<ra_email_i>' (resp. '<conception_..._i>') mapped to the team, role,
\* name and email of the i-th member in roster order, and it has no indexed key
\* for i >= n.
C34_IndexedPlaceholders ==
    stage = "save" =>
        /\ IndexedFor("ra", "resource_allocation_teams")
        /\ IndexedFor("conception", "conception_teams")

\* A finished scan with Jane and Bob on the resource-allocation roster and
\* nobody on the conception roster: Bob's role is '<ra_role_1>'
C34_Witness ==
    /\ stage = "save"
    /\ Len(RosterOf("resource_allocation_teams")) = 2
    /\ RosterOf("resource_allocation_teams")[1].name = "Jane"
    /\ RosterOf("resource_allocation_teams")[2].name = "Bob"
    /\ RosterOf("conception_teams") = <<>>
    /\ ItemsGet(extracted_config["replacements"], "<ra_role_1>", None) = "Dev"
    /\ ItemsGet(extracted_config["replacements"], "<ra_email_0>", None) = "j@x.com"
    /\ ItemsGet(extracted_config["replacements"], "<ra_team_2>", None) = None

----------------------------------------------------------------------------
(* Properties of ticket_creator's main *)

\* The run was started with a dry-run flag
DryRunAsked == \E i \in 1..Len(argv) : argv[i] \in {"--dry-run", "--pretend"}

\* The arguments of the command line that are not dry-run flags
PlainArgs ==
    { i \in 2..Len(argv) : argv[i] # "--dry-run" /\ argv[i] # "--pretend" }

\* The run has no credential: JIRA_API_TOKEN is not in the environment main
\* reads (the process's, completed from .env) and no argument gives a token
NoCredential == environ = None /\ PlainArgs = {}

Constructed == DOMAIN creator # {}

\* C35: in live mode a run with no credential (no JIRA_API_TOKEN in the
\* environment and no token argument) exits non-zero before the submission
\* driver is constructed and before any issue is created; in dry-run mode the
\* run proceeds without any credential.
C35_NoCredentialExit ==
    pc # "main" =>
        /\ (~DryRunAsked /\ NoCredential) =>
              /\ pc = "done"
              /\ creator_exit_code # 0
              /\ ~Constructed
              /\ tracker = [calls |-> 0, created |-> 0]
              /\ submitted = <<>>
              /\ all_rows = <<>>
        /\ DryRunAsked =>
              /\ Constructed
              /\ creator.dry_run
              /\ creator_exit_code = 0
              /\ pc = "done" => DOMAIN summary # {}

\* A live run without token over a CSV with a ticket: main has ended it with
\* status 1 and no creator
C35_Witness ==
    /\ pc = "done"
    /\ argv = <<"ticket_creator.py">>
    /\ environ = None /\ dotenv = None
    /\ csv_file = <<Row("M03", "Task", "Train", "", "", "")>>
    /\ creator_exit_code = 1
    /\ ~Constructed

----------------------------------------------------------------------------
(* Properties of the simulated creations of a dry run *)

\* The submissions that reached create_issue in a dry run, in order
Simulated == { i \in 1..Len(submitted) : submitted[i].called /\ submitted[i].before.dry_run }

\* The number of a simulated creation among the simulated creations so far
SimulatedRank(i) == Cardinality({ j \in Simulated : j <= i })

\* 'DRY-' and n in four digits, n below 100
DryKey(n) ==
    "DRY-00" \o SubSeq("0123456789", (n \div 10) + 1, (n \div 10) + 1)
             \o SubSeq("0123456789", (n % 10) + 1, (n % 10) + 1)

\* C36: in a dry run the n-th simulated creation returns the key 'DRY-'
\* followed by n zero-padded to four digits: simulated keys are pairwise
\* distinct, strictly increasing in submission order across all three phases,
\* and every simulated creation succeeds.
C36_DryKeysSequential ==
    /\ \A i \in Simulated :
        /\ ResultOk(submitted[i].result)
        /\ submitted[i].result.key = DryKey(SimulatedRank(i))
        /\ ~submitted[i].rejected
    /\ \A i, j \in Simulated :
        i < j => /\ submitted[i].result.key # submitted[j].result.key
                 /\ SimulatedRank(i) < SimulatedRank(j)
    /\ creator.dry_run =>
        /\ creator.dry_run_counter = Cardinality(Simulated)
        /\ created_count = Cardinality(Simulated)
        /\ tracker = [calls |-> 0, created |-> 0]

\* A finished dry run of a project, an epic and a story, one per phase, with
\* the keys DRY-0001, DRY-0002 and DRY-0003
C36_Witness ==
    /\ pc = "done"
    /\ creator.dry_run
    /\ Len(submitted) = 3
    /\ submitted[1].phase = "project" /\ submitted[1].result = [key |-> "DRY-0001", id |-> "dry-1"]
    /\ submitted[2].phase = "epic" /\ ResultOk(submitted[2].result)
    /\ submitted[2].result.key = "DRY-0002"
    /\ submitted[3].phase = "other" /\ ResultOk(submitted[3].result)
    /\ submitted[3].result.key = "DRY-0003"
    /\ created_count = 3 /\ failed_count = 0

----------------------------------------------------------------------------
(* Properties of the epic bookkeeping *)

\* The i-th call left created_issues, resp. the placeholder bindings, as it
\* found them
NothingRecorded(i) == After(i).created_issues = submitted[i].before.created_issues
NothingBound(i) == After(i).epic_placeholders = submitted[i].before.epic_placeholders

\* The Summary of the row holds a keyword of the classification
SummaryHasKeyword(row) ==
    \E k \in 1..Len(Keywords) : \E w \in Keywords[k] : In(w, lower(Cell(row, "Summary")))

\* C37: epic bookkeeping uses the Epic Name cell only: a successfully created
\* Epic row whose Epic Name is empty adds no entry to created_issues and binds
\* no symbolic placeholder, even if its Summary contains a classification
\* keyword; and a non-Epic row never binds a placeholder whatever its Epic Name.
C37_EpicNameOnly ==
    \A i \in 1..Len(submitted) :
        /\ ( /\ Rank(submitted[i].row) = 2
             /\ ResultOk(submitted[i].result)
             /\ Cell(submitted[i].row, "Epic Name") = "" )
           => NothingRecorded(i) /\ NothingBound(i)
        /\ Rank(submitted[i].row) # 2 => NothingBound(i)

\* A live run created the epic 'm01 epic', which has no Epic Name, and then the
\* task 'Train', whose Epic Name is 'M00': nothing is recorded or bound
C37_Witness ==
    /\ ~creator.dry_run
    /\ Len(submitted) = 2
    /\ Cell(submitted[1].row, "Summary") = "m01 epic"
    /\ Cell(submitted[1].row, "Epic Name") = ""
    /\ SummaryHasKeyword(submitted[1].row)
    /\ ResultOk(submitted[1].result)
    /\ Cell(submitted[2].row, "Issue Type") = "Task"
    /\ Cell(submitted[2].row, "Epic Name") = "M00"
    /\ ResultOk(submitted[2].result)
    /\ DOMAIN creator.created_issues = {}
    /\ DOMAIN creator.epic_placeholders = {}

----------------------------------------------------------------------------
(* Properties of the rows the driver loads *)

\* The position in the CSV of its first section-marker row, one past the end
\* when it has none
FirstMarker ==
    Least({ j \in 1..Len(csv_file) : IsMarkerRow(csv_file[j]) } \cup {Len(csv_file) + 1})

\* The rows above the first marker that have a non-blank cell
RowsAbove ==
    { j \in 1..(FirstMarker - 1) :
        \E k \in DOMAIN csv_file[j] : strip(csv_file[j][k]) # "" }

\* C38: the submission driver loads rows only up to the first section-marker
\* row of the processed CSV: a ticket row (non-empty Summary and Issue Type)
\* that appears anywhere after the first marker is never submitted and is
\* counted neither as created nor as failed.
C38_LoadStopsAtFirstMarker ==
    pc # "read" =>
        /\ { all_rows[k].row_num - 1 : k \in 1..Len(all_rows) } = RowsAbove
        /\ \A j \in FirstMarker..Len(csv_file) :
              IsTicket(csv_file[j]) =>
                  \A i \in 1..Len(submitted) : submitted[i].row_num # j + 1
        /\ created_count + failed_count = Len(submitted)
        /\ { submitted[i].row_num - 1 : i \in 1..Len(submitted) } \subseteq RowsAbove
        /\ pc = "done" => created_count + failed_count = Cardinality(RowsAbove)

\* A finished run over an epic, a marker and a project row below the marker:
\* the epic alone was submitted and counted
C38_Witness ==
    /\ pc = "done"
    /\ Len(csv_file) = 3
    /\ Rank(csv_file[1]) = 2 /\ IsTicket(csv_file[1])
    /\ FirstMarker = 2
    /\ csv_file[3] = Row("M00", "Project", "Project X", "", "", "")
    /\ IsTicket(csv_file[3])
    /\ Len(submitted) = 1 /\ submitted[1].row_num = 2
    /\ created_count + failed_count = 1

----------------------------------------------------------------------------
(* Properties of the download of the template *)

\* What the handler does with the URL and the destination of the call, the
\* web answering as it does
HandlerOutcome == download_handler(sheets_url, InputPath, "0", web, NoDownload)

\* C39: file_manager.download_csv_from_google_sheets returns the outcome of
\* the underlying handler: True whenever the handler's download of the sheet
\* succeeds and the CSV is written to the configured input path, False when
\* the handler fails or raises.
C39_ReturnsHandlerOutcome ==
    download_pc = "returned" =>
        IF web.importable /\ HandlerOutcome.result
        THEN /\ success
             /\ dest_file = HandlerOutcome.file
             /\ dest_file.exists /\ dest_file.path = InputPath
        ELSE ~success

\* The part that holds: the call never returns True when the handler cannot
\* be imported or fails
NeverTrueOnFailure ==
    (download_pc = "returned" /\ (~web.importable \/ ~HandlerOutcome.result))
        => ~success

\* The handler run by its own main does download: the sheet is at the input
\* path and the handler returned True
HandlerAloneSucceeds ==
    /\ download_pc = "exited"
    /\ success
    /\ dest_file = [exists |-> TRUE, path |-> InputPath,
                    content |-> [bytes |-> "Milestone,Issue Type", utf8 |-> TRUE]]
    /\ fetched = "https://docs.google.com/spreadsheets/d/aB-1_x/export?format=csv&gid=7"

====
